---- MODULE Spec2Model ----
(***************************************************************************)
(* The token-sampling stage of the engine: Sampler.forward and the helpers  *)
(* of aphrodite/modeling/layers/sampler.py.                                 *)
(*                                                                          *)
(* Numbers.  Logits are fixed-point integers; -inf is the value NegInf.     *)
(* softmax is computed in base 2 with FracBits fractional bits: the weight  *)
(* of a logit l in a row with maximum m is 2^(l - m + FracBits), and the    *)
(* probability of a token is its weight over the sum of the row's weights.  *)
(* Thresholds (top_p, top_a, min_p, tfs, typical_p, the cutoffs) are        *)
(* numerators over Den.  Every comparison the filters make is then an exact *)
(* integer comparison.                                                      *)
(***************************************************************************)
EXTENDS Integers, Sequences, FiniteSets, TLC

\* ---------------------------------------------------------------- bounds
\* vocabulary size V
VocabSize == 3
\* fractional bits of the softmax weights
FracBits == 10
\* denominator of the probability thresholds
Den == 4
\* sequence groups in a batch
MaxGroups == 2
\* sequences in a decode-phase group
MaxSeqs == 2
\* policy fields away from their default in the single-row batches
MaxActive == 1
\* Calls that reuse the cached tensors are followed while no cached tensor
\* has more than this many trailing dimensions.
MaxTrailingDims == 2

Vocab == 0 .. (VocabSize - 1)
NegInf == 0 - 1000

\* ------------------------------------------------------- list utilities
RECURSIVE SumSeq(_)
SumSeq(s) == IF s = <<>> THEN 0 ELSE Head(s) + SumSeq(Tail(s))

RECURSIVE Flatten(_)
Flatten(ss) == IF ss = <<>> THEN <<>> ELSE Head(ss) \o Flatten(Tail(ss))

Repeat(x, n) == [i \in 1 .. n |-> x]

Range(s) == {s[i] : i \in DOMAIN s}

Count(s, x) == Cardinality({i \in DOMAIN s : s[i] = x})

SetMax(S) == CHOOSE x \in S : \A y \in S : y <= x

RECURSIVE Pow2(_)
Pow2(n) == IF n <= 0 THEN 1 ELSE 2 * Pow2(n - 1)

\* All orderings of the vocabulary (the index tensor a sort returns).
VocabPerms ==
    {p \in [1 .. VocabSize -> Vocab] : \A i, j \in 1 .. VocabSize : i # j => p[i] # p[j]}

\* ------------------------------------------------------------- softmax
RowMax(row) == SetMax({row[t] : t \in DOMAIN row})

\* The un-normalised weight exp(l - max) of one entry; 0 for -inf and for an
\* entry so far below the maximum that it underflows.
ExpWeight(l, m) ==
    IF l = NegInf \/ l - m + FracBits < 0 THEN 0 ELSE Pow2(l - m + FracBits)

\* torch.softmax over one row: the numerators; the denominator is RowSum.
Softmax(row) == [t \in DOMAIN row |-> ExpWeight(row[t], RowMax(row))]

RECURSIVE SumOver(_, _)
SumOver(f, S) ==
    IF S = {} THEN 0
    ELSE LET x == CHOOSE y \in S : TRUE IN f[x] + SumOver(f, S \ {x})

RowSum(w) == SumOver(w, DOMAIN w)

\* floor(log2(n)) for n >= 1.
RECURSIVE Log2Floor(_)
Log2Floor(n) == IF n <= 1 THEN 0 ELSE 1 + Log2Floor(n \div 2)

\* torch.log_softmax over one row: l - logsumexp(row), -inf stays -inf.
LogSoftmax(row) ==
    LET m == RowMax(row)
        lse == m + Log2Floor(RowSum(Softmax(row))) - FracBits
    IN  [t \in DOMAIN row |-> IF row[t] = NegInf THEN NegInf ELSE row[t] - lse]

\* torch.argmax over one row (first index of the maximum).
ArgMax(row) ==
    CHOOSE t \in DOMAIN row :
        /\ row[t] = RowMax(row)
        /\ \A u \in DOMAIN row : row[u] = RowMax(row) => t <= u

\* ------------------------------------------------------ filter pipeline
Abs(x) == IF x < 0 THEN 0 - x ELSE x

\* Floor division that keeps -inf.
DivLogit(l, d) == IF l = NegInf THEN NegInf ELSE l \div d

\* _get_bin_counts_and_mask: occurrences of token t in a token-id list.
BinCount(tokens, t) == Count(tokens, t)

\* What a division by zero and -inf * 0 leave in a float tensor.
PosInf == 1000
NaN == 2000

\* _apply_penalties on one row.  A repetition coefficient of 0 turns a
\* positive logit into +inf, a non-positive one into 0 and -inf into nan.
ApplyPenalties(row, prompt_tokens, output_tokens, presence, frequency, repetition) ==
    [t \in Vocab |->
        LET seen == BinCount(prompt_tokens, t) > 0 \/ BinCount(output_tokens, t) > 0
            rep == IF seen THEN repetition ELSE 1
            l1 == IF row[t] = NegInf THEN (IF rep = 0 THEN NaN ELSE NegInf)
                  ELSE IF row[t] > 0
                  THEN (IF rep = 0 THEN PosInf ELSE row[t] \div rep)
                  ELSE row[t] * rep
            oc == BinCount(output_tokens, t)
        IN  IF l1 \in {NegInf, PosInf, NaN} THEN l1
            ELSE l1 - frequency * oc - presence * (IF oc > 0 THEN 1 ELSE 0)]

\* The index tensors logits.sort(descending=False) may return for a row.
SortAscending(row) ==
    {idx \in VocabPerms : \A i \in 1 .. VocabSize - 1 : row[idx[i]] <= row[idx[i + 1]]}

\* The index tensors logits.sort(descending=True) may return for a row.
SortDescending(row) ==
    {idx \in VocabPerms : \A i \in 1 .. VocabSize - 1 : row[idx[i]] >= row[idx[i + 1]]}

\* cumsum of a sequence of numbers, at position i.
CumSum(s, i) == SumSeq(SubSeq(s, 1, i))

\* ApplyTopKTopP without "top_p_mask[:, -1] = False": the top sorted
\* position is masked like any other.
ApplyTopKTopPNoExemption(row, p, k, idx) ==
    LET logits_sort == [i \in 1 .. VocabSize |-> row[idx[i]]]
        kth == logits_sort[VocabSize - k + 1]
        after_k == [i \in 1 .. VocabSize |->
                       IF logits_sort[i] < kth THEN NegInf ELSE logits_sort[i]]
        probs_sort == Softmax(after_k)
        total == RowSum(probs_sort)
        top_p_mask(i) ==
            /\ total > 0
            /\ CumSum(probs_sort, i) * Den <= (Den - p) * total
        after_p == [i \in 1 .. VocabSize |->
                       IF top_p_mask(i) THEN NegInf ELSE after_k[i]]
        logits_idx_inv == [t \in Vocab |-> CHOOSE i \in 1 .. VocabSize : idx[i] = t]
    IN  [t \in Vocab |-> after_p[logits_idx_inv[t]]]

\* _apply_top_k_top_p on one row; idx is the ascending sort's index tensor.
ApplyTopKTopP(row, p, k, idx) ==
    LET logits_sort == [i \in 1 .. VocabSize |-> row[idx[i]]]
        kth == logits_sort[VocabSize - k + 1]
        after_k == [i \in 1 .. VocabSize |->
                       IF logits_sort[i] < kth THEN NegInf ELSE logits_sort[i]]
        probs_sort == Softmax(after_k)
        total == RowSum(probs_sort)
        top_p_mask(i) ==
            /\ i # VocabSize
            /\ total > 0
            /\ CumSum(probs_sort, i) * Den <= (Den - p) * total
        after_p == [i \in 1 .. VocabSize |->
                       IF top_p_mask(i) THEN NegInf ELSE after_k[i]]
        logits_idx_inv == [t \in Vocab |-> CHOOSE i \in 1 .. VocabSize : idx[i] = t]
    IN  [t \in Vocab |-> after_p[logits_idx_inv[t]]]

\* _apply_top_a on one row.
ApplyTopA(row, top_a) ==
    LET probs == Softmax(row)
        total == RowSum(probs)
        top == RowMax(probs)
    IN  [t \in Vocab |->
            IF probs[t] * total * Den < top_a * top * top THEN NegInf ELSE row[t]]

\* _apply_min_p on one row.
ApplyMinP(row, min_p) ==
    LET probs == Softmax(row)
        top == RowMax(probs)
    IN  [t \in Vocab |-> IF probs[t] * Den < min_p * top THEN NegInf ELSE row[t]]

\* _apply_tfs on one row; idx is the descending sort's index tensor.
ApplyTfs(row, tfs, idx) ==
    LET logits_sort == [i \in 1 .. VocabSize |-> row[idx[i]]]
        probs == Softmax(logits_sort)
        d1 == [i \in 1 .. VocabSize - 1 |-> probs[i + 1] - probs[i]]
        d2 == [i \in 1 .. VocabSize - 2 |-> Abs(d1[i + 1] - d1[i])]
        total == SumSeq(d2)
        tfs_mask(i) ==
            IF i = 1 THEN FALSE
            ELSE IF i = VocabSize THEN TRUE
            ELSE total > 0 /\ CumSum(d2, i - 1) * Den > tfs * total
        masked == [i \in 1 .. VocabSize |->
                      IF tfs_mask(i) THEN NegInf ELSE logits_sort[i]]
    IN  [t \in Vocab |-> masked[CHOOSE i \in 1 .. VocabSize : idx[i] = t]]

\* The values min(eta, sqrt(eta) * exp(-H)) can take: the entropy H is not
\* computed here, every threshold in (0, eta] is allowed (0 when eta is 0).
EtaThresholds(eta) == IF eta = 0 THEN {0} ELSE 1 .. eta

\* _apply_eta_cutoff on one row; eps is the threshold computed from the entropy.
ApplyEtaCutoff(row, eps) ==
    LET probs == Softmax(row)
        total == RowSum(probs)
        top_idx == ArgMax(probs)
    IN  [t \in Vocab |->
            IF t # top_idx /\ probs[t] * Den < eps * total THEN NegInf ELSE row[t]]

\* _apply_epsilon_cutoff on one row.
ApplyEpsilonCutoff(row, epsilon_cutoff) ==
    LET probs == Softmax(row)
        total == RowSum(probs)
        top_idx == ArgMax(probs)
    IN  [t \in Vocab |->
            IF t # top_idx /\ probs[t] * Den < epsilon_cutoff * total
            THEN NegInf ELSE row[t]]

\* The deviation of an infinite surprisal.
InfDeviation == 1000000

\* |neg_entropy - log_softmax| of _apply_typical_sampling, times the row sum:
\* with neg_entropy = sum_j p_j * log p_j the log-sum-exp terms cancel.
SurprisalDeviations(row) ==
    LET probs == Softmax(row)
        total == RowSum(probs)
        weighted == SumOver([t \in Vocab |->
                                IF probs[t] = 0 THEN 0 ELSE probs[t] * row[t]], Vocab)
    IN  [t \in Vocab |->
            IF row[t] = NegInf THEN InfDeviation ELSE Abs(weighted - row[t] * total)]

\* _apply_typical_sampling on one row; indices is the index tensor of the
\* ascending sort of the surprisal deviations.
ApplyTypicalSampling(row, typical_p, indices) ==
    LET probs == Softmax(row)
        total == RowSum(probs)
        reordered_probs == [i \in 1 .. VocabSize |-> probs[indices[i]]]
        typ_mask_sorted(i) ==
            /\ i > 1
            /\ total > 0
            /\ CumSum(reordered_probs, i) * Den >= typical_p * total
    IN  [t \in Vocab |->
            IF typ_mask_sorted(CHOOSE i \in 1 .. VocabSize : indices[i] = t)
            THEN NegInf ELSE row[t]]

\* ApplyQuadraticSampling without the "logits != -inf" test of torch.where.
ApplyQuadraticSamplingUnguarded(row, smoothing_factor, smoothing_curve) ==
    LET max_logits == RowMax(row)
        k == (3 - smoothing_curve) \div 2
        s == (smoothing_curve - 1) \div 2
        transformed(t) ==
            LET diff == row[t] - max_logits
            IN  0 - (k * smoothing_factor * diff * diff)
                  + (s * smoothing_factor * diff * diff * diff) + max_logits
    IN  [t \in Vocab |-> IF smoothing_factor > 0 THEN transformed(t) ELSE row[t]]

\* ApplyQuadraticSampling without the "smoothing_factor > 0" row mask:
\* every row takes the transformed values.
ApplyQuadraticSamplingEveryRow(row, smoothing_factor, smoothing_curve) ==
    LET max_logits == RowMax(row)
        k == (3 - smoothing_curve) \div 2
        s == (smoothing_curve - 1) \div 2
        transformed(t) ==
            IF row[t] = NegInf THEN NegInf
            ELSE LET diff == row[t] - max_logits
                 IN  0 - (k * smoothing_factor * diff * diff)
                       + (s * smoothing_factor * diff * diff * diff) + max_logits
    IN  [t \in Vocab |-> transformed(t)]

\* _apply_quadratic_sampling on one row; smoothing_curve is an odd integer so
\* that k = (3 - curve) / 2 and s = (curve - 1) / 2 are integers.
ApplyQuadraticSampling(row, smoothing_factor, smoothing_curve) ==
    LET max_logits == RowMax(row)
        k == (3 - smoothing_curve) \div 2
        s == (smoothing_curve - 1) \div 2
        transformed(t) ==
            IF row[t] = NegInf THEN NegInf
            ELSE LET diff == row[t] - max_logits
                 IN  0 - (k * smoothing_factor * diff * diff)
                       + (s * smoothing_factor * diff * diff * diff) + max_logits
    IN  [t \in Vocab |-> IF smoothing_factor > 0 THEN transformed(t) ELSE row[t]]

\* ------------------------------------------------- the batch descriptor
\* SamplingType, and a tag outside the enumeration.
SamplingTypes == <<"GREEDY", "RANDOM", "RANDOM_SEED", "BEAM">>
UnknownType == "UNKNOWN"

\* "None" for the optional counts logprobs and prompt_logprobs.
None == 0 - 1

\* A matrix is a sequence of rows: row r (0-based, as in the code) is m[r + 1].
NumRows(m) == Len(m)

\* All sequences with one element of sets[i] at position i.
RECURSIVE SeqProduct(_)
SeqProduct(sets) ==
    IF sets = <<>> THEN {<<>>}
    ELSE {<<h>> \o t : h \in Head(sets), t \in SeqProduct(Tail(sets))}

\* The rows of the logits matrix a sequence group owns.
GroupRows(g) == Len(g.prompt_logprob_indices) + Len(g.sample_indices)

\* SamplingMetadata.categorized_sample_indices[t][:, 0]: the to-be-sampled
\* rows of the groups of one sampling type that sample, in batch order.
CategorizedSampleIndices(seq_groups, t) ==
    Flatten([i \in 1 .. Len(seq_groups) |->
                IF seq_groups[i].sp.sampling_type = t /\ seq_groups[i].do_sample
                THEN seq_groups[i].sample_indices ELSE <<>>])

\* --------------------------------------------- parameter tensor builder
\* Temperature 0 means greedy: the builder stores 1 so that the temperature
\* stage does not divide by zero.
TensorTemperature(sp) == IF sp.temperature = 0 THEN 1 ELSE sp.temperature

\* top_k = -1 means the whole vocabulary; k is at most the vocabulary size.
TensorTopK(sp) ==
    IF sp.top_k = 0 - 1 \/ sp.top_k > VocabSize THEN VocabSize ELSE sp.top_k

\* SamplingTensors.from_sampling_metadata: the batch-aligned tensors and the
\* "is this filter active anywhere in the batch" flags.  Every tensor is
\* built one-dimensional; trailing_dims counts the dimensions that the
\* transforms later add in place to the tensors they unsqueeze_.
FromSamplingMetadata(seq_groups) ==
    LET \* The per-row expansion of one per-request value: one entry per
        \* prompt-logprob row (or pad there), then one per to-be-sampled row.
        ExpandRows(value(_), prompt_value(_)) ==
            Flatten([i \in 1 .. Len(seq_groups) |->
                LET g == seq_groups[i] IN
                    (IF g.is_prompt /\ g.sp.prompt_logprobs # None
                     THEN Repeat(prompt_value(g), Len(g.prompt_logprob_indices))
                     ELSE <<>>)
                 \o (IF g.do_sample THEN Repeat(value(g), Len(g.seq_ids))
                     ELSE <<>>)])
        \* As ExpandRows, for a per-sequence value (token histories).
        ExpandSeqRows(value(_, _)) ==
            Flatten([i \in 1 .. Len(seq_groups) |->
                LET g == seq_groups[i] IN
                    (IF g.is_prompt /\ g.sp.prompt_logprobs # None
                     THEN Repeat(<<>>, Len(g.prompt_logprob_indices)) ELSE <<>>)
                 \o (IF g.do_sample
                     THEN [j \in 1 .. Len(g.seq_ids) |-> value(g, j)]
                     ELSE <<>>)])
        AnyGroup(P(_)) == \E i \in 1 .. Len(seq_groups) : P(seq_groups[i].sp)
        Same(f(_)) == ExpandRows(f, f)
        v_temperature(g) == TensorTemperature(g.sp)
        v_top_p(g) == g.sp.top_p
        v_top_k(g) == TensorTopK(g.sp)
        v_top_a(g) == g.sp.top_a
        v_min_p(g) == g.sp.min_p
        v_tfs(g) == g.sp.tfs
        v_eta(g) == g.sp.eta_cutoff
        v_eps(g) == g.sp.epsilon_cutoff
        v_typ(g) == g.sp.typical_p
        v_sf(g) == g.sp.smoothing_factor
        v_sc(g) == g.sp.smoothing_curve
        v_pp(g) == g.sp.presence_penalty
        v_fp(g) == g.sp.frequency_penalty
        v_rp(g) == g.sp.repetition_penalty
        zero(g) == 0
        one(g) == 1
        v_prompt(g, j) == g.prompt_token_ids
        v_output(g, j) == g.output_token_ids[j]
    IN  [present |-> TRUE,
         temperatures |-> Same(v_temperature),
         top_ps |-> Same(v_top_p),
         top_ks |-> Same(v_top_k),
         top_as |-> Same(v_top_a),
         min_ps |-> Same(v_min_p),
         tfss |-> Same(v_tfs),
         eta_cutoffs |-> Same(v_eta),
         epsilon_cutoffs |-> Same(v_eps),
         typical_ps |-> Same(v_typ),
         smoothing_factors |-> Same(v_sf),
         smoothing_curves |-> Same(v_sc),
         presence_penalties |-> ExpandRows(v_pp, zero),
         frequency_penalties |-> ExpandRows(v_fp, zero),
         repetition_penalties |-> ExpandRows(v_rp, one),
         prompt_tokens |-> ExpandSeqRows(v_prompt),
         output_tokens |-> ExpandSeqRows(v_output),
         trailing_dims |-> [name \in {"presence_penalties", "frequency_penalties",
                                      "top_as", "min_ps", "smoothing_factors",
                                      "smoothing_curves"} |-> 0],
         do_penalties |-> AnyGroup(LAMBDA sp :
                             sp.presence_penalty # 0 \/ sp.frequency_penalty # 0
                             \/ sp.repetition_penalty # 1),
         do_top_p_top_k |-> AnyGroup(LAMBDA sp :
                             sp.top_p < Den \/ TensorTopK(sp) # VocabSize),
         do_top_as |-> AnyGroup(LAMBDA sp : sp.top_a > 0),
         do_min_p |-> AnyGroup(LAMBDA sp : sp.min_p > 0),
         do_tfss |-> AnyGroup(LAMBDA sp : sp.tfs < Den),
         do_eta_cutoffs |-> AnyGroup(LAMBDA sp : sp.eta_cutoff > 0),
         do_epsilon_cutoffs |-> AnyGroup(LAMBDA sp : sp.epsilon_cutoff > 0),
         do_typical_ps |-> AnyGroup(LAMBDA sp : sp.typical_p < Den),
         do_quadratic |-> AnyGroup(LAMBDA sp :
                             sp.smoothing_factor > 0 \/ sp.smoothing_curve > 1)]

\* Sampler.__init__: no parameter tensors have been built yet.
NoTensors == [present |-> FALSE]

\* ---------------------------------------------------------------- state
VARIABLES
    pc,                        \* position of the current forward call
    md,                        \* sampling_metadata of the call
    logits,                    \* the logits matrix, transformed in place
    tensors,                   \* Sampler._sampling_tensors and the _do_* flags
    include_gpu_probs_tensor,  \* Sampler.include_gpu_probs_tensor
    probs,                     \* softmax of the final logits
    logprobs,                  \* log_softmax of the final logits
    sample_results,            \* per group (next_token_ids, parent_ids)
    sampled_token_ids,         \* the on-device sampled-token tensor
    out_logprobs,              \* (prompt_logprobs, sample_logprobs) lists
    output,                    \* the SamplerOutput of the call
    generators,                \* state of each request's torch.Generator
    hist                       \* history of the call, for stating properties

vars == <<pc, md, logits, tensors, include_gpu_probs_tensor, probs, logprobs,
          sample_results, sampled_token_ids, out_logprobs, output, generators, hist>>

\* StageOrder with min-p applied before top-a.
StageOrderMinPFirst ==
    <<"min_tokens", "penalties", "temperature", "top_k_top_p", "min_p", "top_a",
      "tfs", "eta_cutoff", "epsilon_cutoff", "typical", "quadratic", "softmax">>

\* The transforms of Sampler.forward in program order, then softmax.
StageOrder ==
    <<"min_tokens", "penalties", "temperature", "top_k_top_p", "top_a", "min_p",
      "tfs", "eta_cutoff", "epsilon_cutoff", "typical", "quadratic", "softmax">>

\* The "if do_...:" guards of Sampler.forward.
StageActive(stage, t) ==
    CASE stage = "penalties" -> t.do_penalties
      [] stage = "top_k_top_p" -> t.do_top_p_top_k
      [] stage = "top_a" -> t.do_top_as
      [] stage = "min_p" -> t.do_min_p
      [] stage = "tfs" -> t.do_tfss
      [] stage = "eta_cutoff" -> t.do_eta_cutoffs
      [] stage = "epsilon_cutoff" -> t.do_epsilon_cutoffs
      [] stage = "typical" -> t.do_typical_ps
      [] stage = "quadratic" -> t.do_quadratic
      [] OTHER -> TRUE

StageIndex(stage) == CHOOSE i \in 1 .. Len(StageOrder) : StageOrder[i] = stage

\* The statement Sampler.forward reaches after a stage: the next transform
\* whose guard holds.
StageAfter(stage, t) ==
    LET later == {i \in 1 .. Len(StageOrder) :
                     i > StageIndex(stage) /\ StageActive(StageOrder[i], t)}
    IN  StageOrder[CHOOSE i \in later : \A j \in later : i <= j]

NoHist ==
    [logits_in |-> <<>>, stages |-> <<>>, rebuilt |-> FALSE, last_build |-> <<>>,
     gate_out |-> <<>>, temp_in |-> <<>>, trunc_in |-> <<>>, div_by_zero |-> FALSE,
     draw_in |-> <<>>]

NoMetadata ==
    [seq_groups |-> <<>>, reuse_sampling_tensors |-> FALSE,
     skip_sampler_cpu_output |-> FALSE]

NoOutput == [returned |-> FALSE]

\* A Sampler after __init__, before any forward call.
InitSampler ==
    /\ pc = "idle"
    /\ md = NoMetadata
    /\ logits = <<>>
    /\ tensors = NoTensors
    /\ probs = <<>>
    /\ logprobs = <<>>
    /\ sample_results = <<>>
    /\ sampled_token_ids = <<>>
    /\ out_logprobs = <<>>
    /\ output = NoOutput
    /\ hist = NoHist

\* TensorsDecision without the test of _do_penalties: the cached bundle is
\* kept whenever the caller sets the flag.
TensorsDecisionFlagOnly(metadata, t) ==
    IF ~metadata.reuse_sampling_tensors THEN "build"
    ELSE IF ~t.present THEN "error"
    ELSE "reuse"

\* TensorsDecision for a Sampler whose __init__ would set _do_penalties to
\* False: the flag on a Sampler that never built a bundle keeps the absent
\* bundle.
TensorsDecisionInitialized(metadata, t) ==
    IF ~metadata.reuse_sampling_tensors THEN "build"
    ELSE IF t.present /\ t.do_penalties THEN "build"
    ELSE "reuse"

\* The branch Sampler.forward takes on the cached parameter tensors:
\* "build" calls _init_sampling_tensors, "reuse" keeps the cached bundle,
\* "error" is the AttributeError of reading _do_penalties before any build.
TensorsDecision(metadata, t) ==
    IF ~metadata.reuse_sampling_tensors THEN "build"
    ELSE IF ~t.present THEN "error"
    ELSE IF t.do_penalties THEN "build"
    ELSE "reuse"

\* Sampler.forward, up to the first transform.
Forward(metadata, lg) ==
    LET decision == TensorsDecision(metadata, tensors) IN
    /\ pc = "idle"
    /\ md' = metadata
    /\ logits' = lg
    /\ probs' = <<>>
    /\ logprobs' = <<>>
    /\ sample_results' = <<>>
    /\ sampled_token_ids' = <<>>
    /\ out_logprobs' = <<>>
    /\ output' = NoOutput
    /\ tensors' = IF decision = "build"
                  THEN FromSamplingMetadata(metadata.seq_groups) ELSE tensors
    /\ hist' = [NoHist EXCEPT
                   !.logits_in = lg,
                   !.rebuilt = (decision = "build"),
                   !.last_build = IF decision = "build"
                                  THEN metadata.seq_groups ELSE hist.last_build]
    /\ pc' = IF decision = "error" THEN "error" ELSE "min_tokens"
    /\ UNCHANGED <<include_gpu_probs_tensor, generators>>

\* LogitsToPenalize without the comparison of the output length with
\* min_tokens: every sequence of a gating group is penalized.
LogitsToPenalizeEverySeq(seq_groups) ==
    UNION {
        LET g == seq_groups[i]
            start_idx == g.sample_indices[1]
        IN  IF g.sp.min_tokens > 0 /\ g.sp.all_stop_token_ids # {}
            THEN {<<start_idx + (j - 1), t>> :
                     j \in 1 .. Len(g.seq_ids), t \in g.sp.all_stop_token_ids}
            ELSE {}
        : i \in {k \in 1 .. Len(seq_groups) : seq_groups[k].do_sample} }

\* The (row, token) entries _apply_min_tokens_penalty sets to -inf.
LogitsToPenalize(seq_groups) ==
    UNION {
        LET g == seq_groups[i]
            start_idx == g.sample_indices[1]
            seqs_to_penalize ==
                {j \in 1 .. Len(g.seq_ids) :
                    Len(g.output_token_ids[j]) < g.sp.min_tokens}
        IN  IF g.sp.min_tokens > 0 /\ g.sp.all_stop_token_ids # {}
            THEN {<<start_idx + (j - 1), t>> :
                     j \in seqs_to_penalize, t \in g.sp.all_stop_token_ids}
            ELSE {}
        : i \in {k \in 1 .. Len(seq_groups) : seq_groups[k].do_sample} }

\* logits_applied of _apply_min_tokens_penalty.
LogitsApplied(seq_groups) ==
    SumSeq([i \in 1 .. Len(seq_groups) |-> GroupRows(seq_groups[i])])

\* RowsAccounted with <= for ==: rows the descriptor does not account for
\* pass.
RowsAccountedAtMost(seq_groups, lg) == LogitsApplied(seq_groups) <= NumRows(lg)

\* assert logits_applied == logits.shape[0]
RowsAccounted(seq_groups, lg) == LogitsApplied(seq_groups) = NumRows(lg)

\* _apply_min_tokens_penalty.  An index outside the matrix raises IndexError;
\* the row-count assertion runs after the in-place write.
MinTokens ==
    LET to_penalize == LogitsToPenalize(md.seq_groups)
        in_range == \A e \in to_penalize : e[1] < NumRows(logits) /\ e[2] \in Vocab
        written == [r1 \in 1 .. NumRows(logits) |->
                       [t \in Vocab |->
                           IF <<r1 - 1, t>> \in to_penalize
                           THEN NegInf ELSE logits[r1][t]]]
    IN
    /\ pc = "min_tokens"
    /\ logits' = IF in_range THEN written ELSE logits
    /\ pc' = IF in_range /\ RowsAccounted(md.seq_groups, logits)
             THEN StageAfter("min_tokens", tensors) ELSE "error"
    /\ hist' = [hist EXCEPT !.stages = Append(@, "min_tokens"), !.gate_out = logits']
    /\ UNCHANGED <<md, tensors, include_gpu_probs_tensor, probs, logprobs,
                   sample_results, sampled_token_ids, out_logprobs, output, generators>>

\* The entry of a per-row parameter tensor that lines up with a logits row
\* (a tensor with one entry is broadcast over the rows).
TensorAt(tensor, r1) == IF Len(tensor) = 1 THEN tensor[1] ELSE tensor[r1]

\* Whether a per-row tensor broadcasts against a matrix of n rows.
Broadcastable(tensor, n) == Len(tensor) = 1 \/ Len(tensor) = n

\* What every transform leaves alone.
StageFrame ==
    UNCHANGED <<md, include_gpu_probs_tensor, probs, logprobs,
                sample_results, sampled_token_ids, out_logprobs, output, generators>>

\* tensor.unsqueeze_(dim=1) on the named tensors of the bundle: the cached
\* tensor itself gets one more trailing dimension.
Unsqueezed(t, names) ==
    [t EXCEPT !.trailing_dims =
        [name \in DOMAIN @ |-> IF name \in names THEN @[name] + 1 ELSE @[name]]]

Rows == 1 .. NumRows(logits)

\* PenalizedRows that gives every row the coefficients of the first row.
PenalizedRowsFirstCoefficients(rows, t) ==
    [r1 \in DOMAIN rows |->
        ApplyPenalties(rows[r1],
                       TensorAt(t.prompt_tokens, r1),
                       TensorAt(t.output_tokens, r1),
                       TensorAt(t.presence_penalties, 1),
                       TensorAt(t.frequency_penalties, 1),
                       TensorAt(t.repetition_penalties, 1))]

\* The rows _apply_penalties returns for the rows and coefficient tensors
\* it is given.
PenalizedRows(rows, t) ==
    [r1 \in DOMAIN rows |->
        ApplyPenalties(rows[r1],
                       TensorAt(t.prompt_tokens, r1),
                       TensorAt(t.output_tokens, r1),
                       TensorAt(t.presence_penalties, r1),
                       TensorAt(t.frequency_penalties, r1),
                       TensorAt(t.repetition_penalties, r1))]

\* if do_penalties: logits = _apply_penalties(...).  A step that leaves
\* +inf or nan entries is recorded as faulty and followed no further.
Penalties ==
    /\ pc = "penalties"
    /\ logits' = PenalizedRows(logits, tensors)
    /\ pc' = IF \E r1 \in Rows, t \in Vocab : logits'[r1][t] \in {PosInf, NaN}
             THEN "fault"
             ELSE StageAfter("penalties", tensors)
    /\ hist' = [hist EXCEPT !.stages = Append(@, "penalties")]
    /\ tensors' = Unsqueezed(tensors, {"frequency_penalties", "presence_penalties"})
    /\ StageFrame

\* TemperatureDivisors taken from the policies' own temperatures instead of
\* the bundle's tensor.
TemperatureDivisorsOfPolicy(t, seq_groups) ==
    Flatten([i \in 1 .. Len(seq_groups) |->
        LET g == seq_groups[i] IN
            (IF g.is_prompt /\ g.sp.prompt_logprobs # None
             THEN Repeat(g.sp.temperature, Len(g.prompt_logprob_indices))
             ELSE <<>>)
         \o (IF g.do_sample THEN Repeat(g.sp.temperature, Len(g.seq_ids))
             ELSE <<>>)])

\* The divisors of logits.div_(sampling_tensors.temperatures.unsqueeze(dim=1)).
TemperatureDivisors(t, seq_groups) == t.temperatures

\* logits.div_(temperatures).  A bundle whose row count does not broadcast
\* against the matrix raises RuntimeError.  A zero divisor would give inf or
\* nan entries: the step is then recorded as faulty and followed no further.
Temperature ==
    LET divisors == TemperatureDivisors(tensors, md.seq_groups)
        fits == Broadcastable(divisors, NumRows(logits))
        by_zero == fits /\ \E r1 \in Rows : TensorAt(divisors, r1) = 0
    IN
    /\ pc = "temperature"
    /\ logits' = IF by_zero \/ ~fits THEN logits
                 ELSE [r1 \in Rows |->
                          [t \in Vocab |-> DivLogit(logits[r1][t], TensorAt(divisors, r1))]]
    /\ pc' = IF ~fits THEN "error"
             ELSE IF by_zero THEN "fault"
             ELSE StageAfter("temperature", tensors)
    /\ hist' = [hist EXCEPT !.stages = Append(@, "temperature"),
                            !.div_by_zero = by_zero,
                            !.temp_in = logits,
                            !.trunc_in = logits']
    /\ UNCHANGED tensors
    /\ StageFrame

\* A transform that depends on the order a sort gives to equal keys: every
\* matrix whose row r is one of results[r].
StageChoice(stage, results) ==
    /\ pc = stage
    /\ logits' \in SeqProduct(results)
    /\ pc' = StageAfter(stage, tensors)
    /\ hist' = [hist EXCEPT !.stages = Append(@, stage)]
    /\ UNCHANGED tensors
    /\ StageFrame

\* A transform that is a function of the row and its parameters.
StageApply(stage, result) == StageChoice(stage, [r1 \in Rows |-> {result[r1]}])

\* if do_top_p_top_k: logits = _apply_top_k_top_p(...)
TopKTopP ==
    StageChoice("top_k_top_p",
        [r1 \in Rows |->
            {ApplyTopKTopP(logits[r1], TensorAt(tensors.top_ps, r1),
                           TensorAt(tensors.top_ks, r1), idx) :
                idx \in SortAscending(logits[r1])}])

\* A transform that unsqueezes the named tensors of the bundle in place
\* before it uses them.  fits tells whether the unsqueezed tensors still
\* broadcast against the matrix; if not, the write into the logits raises
\* RuntimeError after the tensors were reshaped.
StageInPlace(stage, names, fits, result) ==
    /\ pc = stage
    /\ tensors' = Unsqueezed(tensors, names)
    /\ logits' = IF fits THEN result ELSE logits
    /\ pc' = IF fits THEN StageAfter(stage, tensors) ELSE "error"
    /\ hist' = [hist EXCEPT !.stages = Append(@, stage)]
    /\ StageFrame

\* if do_top_as: logits = _apply_top_a(...).  top_a.unsqueeze_(dim=1) on a
\* tensor that already has a trailing dimension gives a three-dimensional
\* mask, which masked_fill_ rejects.
TopA ==
    StageInPlace("top_a", {"top_as"}, tensors.trailing_dims.top_as = 0,
        [r1 \in Rows |-> ApplyTopA(logits[r1], TensorAt(tensors.top_as, r1))])

\* if do_min_p: logits = _apply_min_p(...).  min_p.unsqueeze_(dim=1), as
\* for top_a.
MinP ==
    StageInPlace("min_p", {"min_ps"}, tensors.trailing_dims.min_ps = 0,
        [r1 \in Rows |-> ApplyMinP(logits[r1], TensorAt(tensors.min_ps, r1))])

\* if do_tfss: logits = _apply_tfs(...)
Tfs ==
    StageChoice("tfs",
        [r1 \in Rows |->
            {ApplyTfs(logits[r1], TensorAt(tensors.tfss, r1), idx) :
                idx \in SortDescending(logits[r1])}])

\* if do_eta_cutoffs: logits = _apply_eta_cutoff(...)
EtaCutoff ==
    StageChoice("eta_cutoff",
        [r1 \in Rows |->
            {ApplyEtaCutoff(logits[r1], eps) :
                eps \in EtaThresholds(TensorAt(tensors.eta_cutoffs, r1))}])

\* if do_epsilon_cutoffs: logits = _apply_epsilon_cutoff(...)
EpsilonCutoff ==
    StageApply("epsilon_cutoff",
        [r1 \in Rows |->
            ApplyEpsilonCutoff(logits[r1], TensorAt(tensors.epsilon_cutoffs, r1))])

\* if do_typical_ps: logits = _apply_typical_sampling(...)
Typical ==
    StageChoice("typical",
        [r1 \in Rows |->
            {ApplyTypicalSampling(logits[r1], TensorAt(tensors.typical_ps, r1), indices) :
                indices \in SortAscending(SurprisalDeviations(logits[r1]))}])

\* if do_quadratic: logits = _apply_quadratic_sampling(...).  Both tensors
\* are unsqueezed in place.  With tensors that already have a trailing
\* dimension the transformed logits get a dimension more than the logits:
\* the indexed assignment drops leading dimensions of size one, so a matrix
\* of one row is written as before, and raises for a matrix of more rows.
Quadratic ==
    StageInPlace("quadratic", {"smoothing_factors", "smoothing_curves"},
        \/ /\ tensors.trailing_dims.smoothing_factors = 0
           /\ tensors.trailing_dims.smoothing_curves = 0
        \/ NumRows(logits) = 1,
        [r1 \in Rows |->
            ApplyQuadraticSampling(logits[r1],
                                   TensorAt(tensors.smoothing_factors, r1),
                                   TensorAt(tensors.smoothing_curves, r1))])

\* probs = torch.softmax(logits); logprobs = torch.log_softmax(logits)
ComputeProbs ==
    /\ pc = "softmax"
    /\ probs' = [r1 \in Rows |-> Softmax(logits[r1])]
    /\ logprobs' = [r1 \in Rows |-> LogSoftmax(logits[r1])]
    /\ pc' = "sample"
    /\ hist' = [hist EXCEPT !.stages = Append(@, "softmax")]
    /\ UNCHANGED <<md, logits, tensors, include_gpu_probs_tensor, sample_results,
                   sampled_token_ids, out_logprobs, output, generators>>

\* -------------------------------------------------------- draw strategies
\* torch.Generator as a linear congruential generator with 16 states; each
\* element exponential_ fills advances the state once and yields a noise
\* value in 1 .. 4.
GenStep(g) == (5 * g + 3) % 16
NoiseOf(g) == 1 + (g \div 4)

RECURSIVE GenAdvance(_, _)
GenAdvance(g, n) == IF n <= 0 THEN g ELSE GenAdvance(GenStep(g), n - 1)

GeneratorStates == 0 .. 15

\* The n noise rows a generator in state g fills, one value per vocabulary entry.
NoiseRows(g, n) ==
    [i \in 1 .. n |->
        [t \in Vocab |-> NoiseOf(GenAdvance(g, (i - 1) * VocabSize + t + 1))]]

\* probs.div_(q).argmax(dim=1) on one row: the first token that maximises
\* probs[t] / q[t].
NoisyArgMax(p, q) ==
    CHOOSE t \in Vocab :
        /\ \A u \in Vocab : p[t] * q[u] >= p[u] * q[t]
        /\ \A u \in Vocab : (u < t) => p[u] * q[t] < p[t] * q[u]

\* The sample_idx cursor of _greedy_sample, _random_sample and
\* _beam_search_sample when the loop reaches the k-th selected group: it has
\* advanced by num_parent_seqs for every earlier group that samples.
SampleCursor(groups, k) ==
    SumSeq([i \in 1 .. k - 1 |->
               IF groups[i].do_sample THEN Len(groups[i].seq_ids) ELSE 0])

\* The sample_idx cursor of the seeded branch of _multinomial at the k-th
\* selected group: it advances by len(seq_ids) * num_samples for every group.
NoiseCursor(groups, k, num_samples) ==
    SumSeq([i \in 1 .. k - 1 |-> Len(groups[i].seq_ids) * num_samples])

\* Rows of q[lo:hi] that exist in a tensor of total rows (slices are clamped).
SliceRows(lo, hi, total) ==
    {r \in 0 .. total - 1 : lo <= r /\ r < hi}

\* The seeded branch of _multinomial: who fills each row of q.  Row r
\* (0-based) of q is filled by the last selected group whose slice holds it,
\* as the (r - lo + 1)-th row that group's generator produces in the call.
SeededNoise(groups, num_samples, total, gens) ==
    [r1 \in 1 .. total |->
        LET r == r1 - 1
            owners == {k \in 1 .. Len(groups) :
                          r \in SliceRows(NoiseCursor(groups, k, num_samples),
                                          NoiseCursor(groups, k + 1, num_samples),
                                          total)}
            k == SetMax(owners)
            lo == NoiseCursor(groups, k, num_samples)
        IN  [group |-> k,
             noise |-> NoiseRows(gens[groups[k].generator], r - lo + 1)[r - lo + 1]]]

\* The generator states after the seeded branch of _multinomial.
SeededGenerators(groups, num_samples, total, gens) ==
    [id \in DOMAIN gens |->
        LET drawn == SumSeq([k \in 1 .. Len(groups) |->
                        IF groups[k].generator = id
                        THEN Cardinality(SliceRows(
                                 NoiseCursor(groups, k, num_samples),
                                 NoiseCursor(groups, k + 1, num_samples),
                                 total)) * VocabSize
                        ELSE 0])
        IN  GenAdvance(gens[id], drawn)]

\* _multinomial: probs is the sequence of selected probability rows; q the
\* noise rows, num_samples consecutive rows of q per row of probs.  The
\* result has one row of num_samples token ids per row of probs.
Multinomial(p, num_samples, q) ==
    [i \in 1 .. Len(p) |->
        [d \in 1 .. num_samples |-> NoisyArgMax(p[i], q[(i - 1) * num_samples + d])]]

\* max_best_of_in_batch of _sample_with_torch.
MaxBestOf(groups) ==
    SetMax({1} \cup {groups[k].sp.best_of : k \in {j \in 1 .. Len(groups) : groups[j].is_prompt}})

\* torch.topk(scores, k).indices: the positions of the k largest scores,
\* largest first, the lower position first among equal scores.
RECURSIVE TopK(_, _, _)
TopK(scores, k, taken) ==
    IF k = 0 THEN <<>>
    ELSE LET free == (DOMAIN scores) \ taken
             best == CHOOSE i \in free :
                        \A j \in free : scores[i] > scores[j]
                                        \/ (scores[i] = scores[j] /\ i <= j)
         IN  <<best>> \o TopK(scores, k - 1, taken \cup {best})

EmptyResult == [next_token_ids |-> <<>>, parent_ids |-> <<>>, rows |-> <<>>]

\* _greedy_sample for the k-th selected group; samples[i] is the arg-max of
\* the i-th selected row, rows[i] that row's number in the logits matrix.
GreedySample(groups, k, samples, rows) ==
    LET g == groups[k]
        sample_idx == SampleCursor(groups, k)
    IN  IF ~g.do_sample THEN EmptyResult
        ELSE [next_token_ids |-> <<samples[sample_idx + 1]>>,
              parent_ids |-> <<0>>,
              rows |-> <<rows[sample_idx + 1]>>]

\* The assertion of _greedy_sample.
GreedyAssert(groups) ==
    \A k \in 1 .. Len(groups) : groups[k].do_sample => Len(groups[k].seq_ids) = 1

\* RandomSample reading every token of a decode-phase group from the
\* group's first row.
RandomSampleFirstRow(groups, k, random_samples, rows) ==
    LET g == groups[k]
        sample_idx == SampleCursor(groups, k)
        num_parent_seqs == Len(g.seq_ids)
        drawn == IF g.sp.best_of <= Len(random_samples[sample_idx + 1])
                 THEN g.sp.best_of ELSE Len(random_samples[sample_idx + 1])
    IN  IF ~g.do_sample THEN EmptyResult
        ELSE IF g.is_prompt
        THEN [next_token_ids |-> SubSeq(random_samples[sample_idx + 1], 1, drawn),
              parent_ids |-> Repeat(0, g.sp.best_of),
              rows |-> Repeat(rows[sample_idx + 1], drawn)]
        ELSE [next_token_ids |-> [j \in 1 .. num_parent_seqs |->
                                     random_samples[sample_idx + 1][1]],
              parent_ids |-> [j \in 1 .. num_parent_seqs |-> j - 1],
              rows |-> [j \in 1 .. num_parent_seqs |-> rows[sample_idx + 1]]]

\* _random_sample for the k-th selected group; random_samples[i] is the row
\* of token ids drawn from the i-th selected row.
RandomSample(groups, k, random_samples, rows) ==
    LET g == groups[k]
        sample_idx == SampleCursor(groups, k)
        num_parent_seqs == Len(g.seq_ids)
        drawn == IF g.sp.best_of <= Len(random_samples[sample_idx + 1])
                 THEN g.sp.best_of ELSE Len(random_samples[sample_idx + 1])
    IN  IF ~g.do_sample THEN EmptyResult
        ELSE IF g.is_prompt
        THEN [next_token_ids |-> SubSeq(random_samples[sample_idx + 1], 1, drawn),
              parent_ids |-> Repeat(0, g.sp.best_of),
              rows |-> Repeat(rows[sample_idx + 1], drawn)]
        ELSE [next_token_ids |-> [j \in 1 .. num_parent_seqs |->
                                     random_samples[sample_idx + j][1]],
              parent_ids |-> [j \in 1 .. num_parent_seqs |-> j - 1],
              rows |-> [j \in 1 .. num_parent_seqs |-> rows[sample_idx + j]]]

AddLogprob(l, c) == IF l = NegInf THEN NegInf ELSE l + c

\* Whether _beam_search_sample raises for the k-th selected group: the
\* prompt-phase assertion, or torch.topk asked for more than there is.
BeamSearchRaises(groups, k) ==
    LET g == groups[k]
        n == Len(g.seq_ids)
    IN  /\ g.do_sample
        /\ IF g.is_prompt
           THEN n # 1 \/ 2 * g.sp.best_of > VocabSize
           ELSE 2 * g.sp.best_of > n * VocabSize

\* BeamSearchSample expanding a prompt into beam_width candidates instead of
\* 2 * beam_width.
BeamSearchSampleWidth(groups, k, beam_logprobs, rows) ==
    LET g == groups[k]
        sample_idx == SampleCursor(groups, k)
        num_parent_seqs == Len(g.seq_ids)
        beam_width == g.sp.best_of
        seq_group_logprobs == SubSeq(beam_logprobs, sample_idx + 1,
                                     sample_idx + num_parent_seqs)
        flat == [i \in 0 .. num_parent_seqs * VocabSize - 1 |->
                    AddLogprob(seq_group_logprobs[(i \div VocabSize) + 1][i % VocabSize],
                               g.cumulative_logprobs[(i \div VocabSize) + 1])]
        topk_ids == TopK(flat, 2 * beam_width, {})
        prompt_ids == TopK(seq_group_logprobs[1], beam_width, {})
    IN  IF ~g.do_sample THEN EmptyResult
        ELSE IF g.is_prompt
        THEN [next_token_ids |-> prompt_ids,
              parent_ids |-> Repeat(0, beam_width),
              rows |-> Repeat(rows[sample_idx + 1], beam_width)]
        ELSE [next_token_ids |-> [i \in 1 .. 2 * beam_width |-> topk_ids[i] % VocabSize],
              parent_ids |-> [i \in 1 .. 2 * beam_width |-> topk_ids[i] \div VocabSize],
              rows |-> [i \in 1 .. 2 * beam_width |->
                           rows[sample_idx + (topk_ids[i] \div VocabSize) + 1]]]

\* BeamSearchSample without the row cursor: every group reads the rows at
\* the start of the partition.
BeamSearchSampleNoCursor(groups, k, beam_logprobs, rows) ==
    LET g == groups[k]
        sample_idx == 0
        num_parent_seqs == Len(g.seq_ids)
        beam_width == g.sp.best_of
        seq_group_logprobs == SubSeq(beam_logprobs, sample_idx + 1,
                                     sample_idx + num_parent_seqs)
        flat == [i \in 0 .. num_parent_seqs * VocabSize - 1 |->
                    AddLogprob(seq_group_logprobs[(i \div VocabSize) + 1][i % VocabSize],
                               g.cumulative_logprobs[(i \div VocabSize) + 1])]
        topk_ids == TopK(flat, 2 * beam_width, {})
        prompt_ids == TopK(seq_group_logprobs[1], 2 * beam_width, {})
    IN  IF ~g.do_sample THEN EmptyResult
        ELSE IF g.is_prompt
        THEN [next_token_ids |-> prompt_ids,
              parent_ids |-> Repeat(0, 2 * beam_width),
              rows |-> Repeat(rows[sample_idx + 1], 2 * beam_width)]
        ELSE [next_token_ids |-> [i \in 1 .. 2 * beam_width |-> topk_ids[i] % VocabSize],
              parent_ids |-> [i \in 1 .. 2 * beam_width |-> topk_ids[i] \div VocabSize],
              rows |-> [i \in 1 .. 2 * beam_width |->
                           rows[sample_idx + (topk_ids[i] \div VocabSize) + 1]]]

\* _beam_search_sample for the k-th selected group; beam_logprobs[i] is the
\* log-probability row of the i-th selected row.
BeamSearchSample(groups, k, beam_logprobs, rows) ==
    LET g == groups[k]
        sample_idx == SampleCursor(groups, k)
        num_parent_seqs == Len(g.seq_ids)
        beam_width == g.sp.best_of
        seq_group_logprobs == SubSeq(beam_logprobs, sample_idx + 1,
                                     sample_idx + num_parent_seqs)
        flat == [i \in 0 .. num_parent_seqs * VocabSize - 1 |->
                    AddLogprob(seq_group_logprobs[(i \div VocabSize) + 1][i % VocabSize],
                               g.cumulative_logprobs[(i \div VocabSize) + 1])]
        topk_ids == TopK(flat, 2 * beam_width, {})
        prompt_ids == TopK(seq_group_logprobs[1], 2 * beam_width, {})
    IN  IF ~g.do_sample THEN EmptyResult
        ELSE IF g.is_prompt
        THEN [next_token_ids |-> prompt_ids,
              parent_ids |-> Repeat(0, 2 * beam_width),
              rows |-> Repeat(rows[sample_idx + 1], 2 * beam_width)]
        ELSE [next_token_ids |-> [i \in 1 .. 2 * beam_width |-> topk_ids[i] % VocabSize],
              parent_ids |-> [i \in 1 .. 2 * beam_width |-> topk_ids[i] \div VocabSize],
              rows |-> [i \in 1 .. 2 * beam_width |->
                           rows[sample_idx + (topk_ids[i] \div VocabSize) + 1]]]

\* categorized_seq_group_ids[t]: the positions in the batch of the groups of
\* one sampling type.
CategorizedSeqGroupIds(seq_groups, t) ==
    SelectSeq([i \in 1 .. Len(seq_groups) |-> i],
              LAMBDA i : seq_groups[i].sp.sampling_type = t)

\* An entry of the sampled-token tensor that no statement wrote (torch.empty).
Unwritten == 0 - 1

\* OneHot that zeroes the row and never writes the 1.
OneHotZeroed(token) == [t \in Vocab |-> 0]

\* _modify_greedy_probs_inplace on one row.
OneHot(token) == [t \in Vocab |-> IF t = token THEN 1 ELSE 0]

\* _sample_with_torch.  noise_seed is the state of the process-wide generator
\* the unseeded q.exponential_() draws from.
SampleWithTorch(metadata, p, lp, gens, gpu, noise_seed) ==
    LET seq_groups == metadata.seq_groups
        Ids(t) == CategorizedSeqGroupIds(seq_groups, t)
        Groups(t) == [k \in 1 .. Len(Ids(t)) |-> seq_groups[Ids(t)[k]]]
        Indices(t) == CategorizedSampleIndices(seq_groups, t)
        Selected(t) == Len(Indices(t)) > 0
        unknown_type == \E i \in 1 .. Len(seq_groups) :
                            seq_groups[i].sp.sampling_type \notin Range(SamplingTypes)
        greedy_samples == [i \in 1 .. Len(Indices("GREEDY")) |->
                              ArgMax(lp[Indices("GREEDY")[i] + 1])]
        BestOf(t) == MaxBestOf(Groups(t))
        Picked(t) == [i \in 1 .. Len(Indices(t)) |-> p[Indices(t)[i] + 1]]
        seeded == SeededNoise(Groups("RANDOM_SEED"), BestOf("RANDOM_SEED"),
                              Len(Indices("RANDOM_SEED")) * BestOf("RANDOM_SEED"), gens)
        Noise(t) == IF t = "RANDOM"
                    THEN NoiseRows(noise_seed, Len(Indices(t)) * BestOf(t))
                    ELSE [r1 \in DOMAIN seeded |-> seeded[r1].noise]
        Samples(t) == Multinomial(Picked(t), BestOf(t), Noise(t))
        beam_search_logprobs == [i \in 1 .. Len(Indices("BEAM")) |->
                                    lp[Indices("BEAM")[i] + 1]]
        \* sampled_token_ids_tensor[long_sample_indices] = multinomial_samples
        \* needs a single column.
        store_raises == gpu /\ \E t \in {"RANDOM", "RANDOM_SEED"} :
                            Selected(t) /\ BestOf(t) > 1
        Result(i) ==
            LET t == seq_groups[i].sp.sampling_type
                k == CHOOSE j \in 1 .. Len(Ids(t)) : Ids(t)[j] = i
            IN  IF ~Selected(t) THEN EmptyResult
                ELSE IF t = "GREEDY"
                THEN GreedySample(Groups(t), k, greedy_samples, Indices(t))
                ELSE IF t = "BEAM"
                THEN BeamSearchSample(Groups(t), k, beam_search_logprobs, Indices(t))
                ELSE RandomSample(Groups(t), k, Samples(t), Indices(t))
        convert_raises ==
            /\ ~metadata.skip_sampler_cpu_output
            /\ \/ Selected("GREEDY") /\ ~GreedyAssert(Groups("GREEDY"))
               \/ Selected("BEAM") /\ \E k \in 1 .. Len(Ids("BEAM")) :
                                          BeamSearchRaises(Groups("BEAM"), k)
        WrittenBy(r) ==
            {t \in {"GREEDY", "RANDOM", "RANDOM_SEED"} : r \in Range(Indices(t))}
        TokenAt(r) ==
            LET t == CHOOSE u \in WrittenBy(r) : TRUE
                i == CHOOSE j \in 1 .. Len(Indices(t)) : Indices(t)[j] = r
            IN  IF t = "GREEDY" THEN greedy_samples[i] ELSE Samples(t)[i][1]
        drawn_generators ==
            IF Selected("RANDOM_SEED")
            THEN SeededGenerators(Groups("RANDOM_SEED"), BestOf("RANDOM_SEED"),
                     Len(Indices("RANDOM_SEED")) * BestOf("RANDOM_SEED"), gens)
            ELSE gens
    IN  IF unknown_type \/ (gpu /\ Selected("RANDOM") /\ BestOf("RANDOM") > 1)
        THEN [raised |-> TRUE, generators |-> gens]
        ELSE IF store_raises \/ convert_raises
        THEN [raised |-> TRUE, generators |-> drawn_generators]
        ELSE [raised |-> FALSE,
              generators |-> drawn_generators,
              sample_results |->
                  IF metadata.skip_sampler_cpu_output THEN <<>>
                  ELSE [i \in 1 .. Len(seq_groups) |-> Result(i)],
              probs |->
                  [r1 \in 1 .. Len(p) |->
                      IF gpu /\ (r1 - 1) \in Range(Indices("GREEDY"))
                      THEN OneHot(ArgMax(lp[r1])) ELSE p[r1]],
              sampled_token_ids |->
                  IF ~gpu THEN <<>>
                  ELSE [r1 \in 1 .. Len(lp) |->
                           IF WrittenBy(r1 - 1) = {} THEN Unwritten ELSE TokenAt(r1 - 1)]]

\* The states the process-wide generator may be in when a call draws
\* unseeded noise; a call that draws none does not depend on it.
UnseededStates(metadata) ==
    IF CategorizedSampleIndices(metadata.seq_groups, "RANDOM") = <<>>
    THEN {0} ELSE GeneratorStates

\* sample_results, maybe_sampled_tokens_tensor = _sample(...)
Sample ==
    /\ pc = "sample"
    /\ \E noise_seed \in UnseededStates(md) :
         LET res == SampleWithTorch(md, probs, logprobs, generators,
                                    include_gpu_probs_tensor, noise_seed)
         IN  /\ generators' = res.generators
             /\ IF res.raised
                THEN /\ pc' = "error"
                     /\ UNCHANGED <<sample_results, probs, sampled_token_ids>>
                ELSE /\ pc' = IF md.skip_sampler_cpu_output THEN "build_output"
                              ELSE "get_logprobs"
                     /\ sample_results' = res.sample_results
                     /\ probs' = res.probs
                     /\ sampled_token_ids' = res.sampled_token_ids
             /\ hist' = [hist EXCEPT
                            !.stages = Append(@, "sample"),
                            !.draw_in = [probs |-> probs, generators |-> generators]]
    /\ UNCHANGED <<md, logits, tensors, include_gpu_probs_tensor, logprobs,
                   out_logprobs, output>>

\* ------------------------------------------------------ logprob extractor
Min(a, b) == IF a < b THEN a ELSE b

\* _get_next_prompt_tokens: the prompt tokens that follow the query tokens
\* of this step.
GetNextPromptTokens(g) ==
    LET next_token_index_start == g.num_computed_tokens + 1
        next_token_index_end == Min(g.num_computed_tokens + g.query_len + 1,
                                    Len(g.prompt_token_ids))
    IN  SubSeq(g.prompt_token_ids, next_token_index_start + 1, next_token_index_end)

WantsPromptLogprobs(g) == g.is_prompt /\ g.sp.prompt_logprobs # None

\* What the first loop of _get_logprobs adds to query_indices and
\* next_token_ids for one group.
QueryIndices(g, sample_result) ==
    (IF WantsPromptLogprobs(g) THEN g.prompt_logprob_indices ELSE <<>>)
    \o (IF g.do_sample
        THEN [j \in 1 .. Len(sample_result.parent_ids) |->
                 g.sample_indices[1] + sample_result.parent_ids[j]]
        ELSE <<>>)

QueryTokens(g, sample_result) ==
    (IF WantsPromptLogprobs(g) THEN GetNextPromptTokens(g) ELSE <<>>)
    \o (IF g.do_sample THEN sample_result.next_token_ids ELSE <<>>)

\* _get_ranks for one row and the chosen token.
GetRank(x, token) == 1 + Cardinality({t \in Vocab : x[t] > x[token]})

\* A python dict as a function; update() lets the later entry win.
DictUpdate(d, e) ==
    [key \in (DOMAIN d) \cup (DOMAIN e) |-> IF key \in DOMAIN e THEN e[key] ELSE d[key]]

\* LogprobDict that takes every column of the batch-wide top-k row.
LogprobDictUnsliced(lp, query_row, token, num_logprobs, top_row, largest) ==
    LET own == [key \in {token} |->
                   [logprob |-> lp[query_row + 1][token],
                    rank |-> GetRank(lp[query_row + 1], token)]]
        top_ids == TopK(lp[top_row + 1], largest, {})
        n == largest
        top == [key \in {top_ids[i] : i \in 1 .. n} |->
                   LET i == CHOOSE j \in 1 .. n : top_ids[j] = key
                   IN  [logprob |-> lp[top_row + 1][key], rank |-> i]]
    IN  IF num_logprobs # None /\ num_logprobs > 0 THEN DictUpdate(own, top) ELSE own

\* The {token: (logprob, rank)} map of one reported token: its own entry,
\* then the first num_logprobs columns of the top-k row top_row.
LogprobDict(lp, query_row, token, num_logprobs, top_row, largest) ==
    LET own == [key \in {token} |->
                   [logprob |-> lp[query_row + 1][token],
                    rank |-> GetRank(lp[query_row + 1], token)]]
        top_ids == TopK(lp[top_row + 1], largest, {})
        n == Min(num_logprobs, largest)
        top == [key \in {top_ids[i] : i \in 1 .. n} |->
                   LET i == CHOOSE j \in 1 .. n : top_ids[j] = key
                   IN  [logprob |-> lp[top_row + 1][key], rank |-> i]]
    IN  IF num_logprobs # None /\ num_logprobs > 0 THEN DictUpdate(own, top) ELSE own

\* Logprob(inf), the dummy entry when no logprobs were requested.
DummyLogprob == [logprob |-> 1000000, rank |-> None]

\* GetLogprobs whose top-k cursor advances by the number of samples of a
\* group instead of its number of sequences.
GetLogprobsSampleCursor(lp, metadata, results) ==
    LET seq_groups == metadata.seq_groups
        n == Min(Len(seq_groups), Len(results))
        Q(i) == QueryIndices(seq_groups[i], results[i])
        T(i) == QueryTokens(seq_groups[i], results[i])
        query_indices == Flatten([i \in 1 .. n |-> Q(i)])
        sampling(i) == seq_groups[i].do_sample
        largest_num_logprobs ==
            SetMax({None}
                   \cup {seq_groups[i].sp.prompt_logprobs :
                            i \in {j \in 1 .. n : WantsPromptLogprobs(seq_groups[j])}}
                   \cup {seq_groups[i].sp.logprobs :
                            i \in {j \in 1 .. n : sampling(j)
                                                  /\ seq_groups[j].sp.logprobs # None}})
        \* the cursors of the second loop when it reaches group i
        PromptLen(i) == IF WantsPromptLogprobs(seq_groups[i])
                        THEN Len(GetNextPromptTokens(seq_groups[i])) ELSE 0
        top_logprob_idx(i) ==
            SumSeq([j \in 1 .. i - 1 |->
                       PromptLen(j) + (IF sampling(j) THEN Len(results[j].next_token_ids) ELSE 0)])
        selected_logprobs_idx(i) ==
            SumSeq([j \in 1 .. i - 1 |->
                       PromptLen(j) + (IF sampling(j) THEN Len(results[j].next_token_ids) ELSE 0)])
        Selected(i, j) == query_indices[selected_logprobs_idx(i) + j]
        Prompt(i) ==
            LET g == seq_groups[i]
                tokens == GetNextPromptTokens(g)
            IN  IF ~WantsPromptLogprobs(g) THEN <<>>
                ELSE [j \in 1 .. Len(tokens) |->
                         [dict |-> LogprobDict(lp, Selected(i, j), tokens[j],
                                               g.sp.prompt_logprobs,
                                               top_logprob_idx(i) + j - 1,
                                               largest_num_logprobs),
                          query_row |-> Selected(i, j),
                          top_row |-> top_logprob_idx(i) + j - 1]]
        Sampled(i) ==
            LET g == seq_groups[i]
                res == results[i]
                base == selected_logprobs_idx(i) + PromptLen(i)
                top_base == top_logprob_idx(i) + PromptLen(i)
            IN  IF ~g.do_sample THEN <<>>
                ELSE IF g.sp.logprobs = None /\ ~g.sp.use_beam_search
                THEN [j \in 1 .. Len(res.next_token_ids) |->
                         [dict |-> [key \in {res.next_token_ids[j]} |-> DummyLogprob],
                          query_row |-> None, top_row |-> None]]
                ELSE [j \in 1 .. Len(res.next_token_ids) |->
                         [dict |-> LogprobDict(lp, query_indices[base + j],
                                               res.next_token_ids[j], g.sp.logprobs,
                                               top_base + res.parent_ids[j],
                                               largest_num_logprobs),
                          query_row |-> query_indices[base + j],
                          top_row |-> top_base + res.parent_ids[j]]]
        raises ==
            \/ \E i \in 1 .. n : Len(Q(i)) # Len(T(i))
            \/ largest_num_logprobs > VocabSize
            \/ \E i \in 1 .. n : sampling(i) /\ Len(results[i].next_token_ids) = 0
    IN  IF raises THEN [raised |-> TRUE]
        ELSE IF Len(query_indices) = 0
        THEN [raised |-> FALSE,
              prompt_logprobs |-> <<[present |-> FALSE, items |-> <<>>]>>,
              sample_logprobs |-> << <<>> >>]
        ELSE [raised |-> FALSE,
              prompt_logprobs |->
                  [i \in 1 .. n |-> [present |-> WantsPromptLogprobs(seq_groups[i]),
                                     items |-> Prompt(i)]],
              sample_logprobs |-> [i \in 1 .. n |-> Sampled(i)]]

\* _get_logprobs.
GetLogprobs(lp, metadata, results) ==
    LET seq_groups == metadata.seq_groups
        n == Min(Len(seq_groups), Len(results))
        Q(i) == QueryIndices(seq_groups[i], results[i])
        T(i) == QueryTokens(seq_groups[i], results[i])
        query_indices == Flatten([i \in 1 .. n |-> Q(i)])
        sampling(i) == seq_groups[i].do_sample
        largest_num_logprobs ==
            SetMax({None}
                   \cup {seq_groups[i].sp.prompt_logprobs :
                            i \in {j \in 1 .. n : WantsPromptLogprobs(seq_groups[j])}}
                   \cup {seq_groups[i].sp.logprobs :
                            i \in {j \in 1 .. n : sampling(j)
                                                  /\ seq_groups[j].sp.logprobs # None}})
        \* the cursors of the second loop when it reaches group i
        PromptLen(i) == IF WantsPromptLogprobs(seq_groups[i])
                        THEN Len(GetNextPromptTokens(seq_groups[i])) ELSE 0
        top_logprob_idx(i) ==
            SumSeq([j \in 1 .. i - 1 |->
                       PromptLen(j) + (IF sampling(j) THEN Len(seq_groups[j].seq_ids) ELSE 0)])
        selected_logprobs_idx(i) ==
            SumSeq([j \in 1 .. i - 1 |->
                       PromptLen(j) + (IF sampling(j) THEN Len(results[j].next_token_ids) ELSE 0)])
        Selected(i, j) == query_indices[selected_logprobs_idx(i) + j]
        Prompt(i) ==
            LET g == seq_groups[i]
                tokens == GetNextPromptTokens(g)
            IN  IF ~WantsPromptLogprobs(g) THEN <<>>
                ELSE [j \in 1 .. Len(tokens) |->
                         [dict |-> LogprobDict(lp, Selected(i, j), tokens[j],
                                               g.sp.prompt_logprobs,
                                               top_logprob_idx(i) + j - 1,
                                               largest_num_logprobs),
                          query_row |-> Selected(i, j),
                          top_row |-> top_logprob_idx(i) + j - 1]]
        Sampled(i) ==
            LET g == seq_groups[i]
                res == results[i]
                base == selected_logprobs_idx(i) + PromptLen(i)
                top_base == top_logprob_idx(i) + PromptLen(i)
            IN  IF ~g.do_sample THEN <<>>
                ELSE IF g.sp.logprobs = None /\ ~g.sp.use_beam_search
                THEN [j \in 1 .. Len(res.next_token_ids) |->
                         [dict |-> [key \in {res.next_token_ids[j]} |-> DummyLogprob],
                          query_row |-> None, top_row |-> None]]
                ELSE [j \in 1 .. Len(res.next_token_ids) |->
                         [dict |-> LogprobDict(lp, query_indices[base + j],
                                               res.next_token_ids[j], g.sp.logprobs,
                                               top_base + res.parent_ids[j],
                                               largest_num_logprobs),
                          query_row |-> query_indices[base + j],
                          top_row |-> top_base + res.parent_ids[j]]]
        raises ==
            \/ \E i \in 1 .. n : Len(Q(i)) # Len(T(i))
            \/ largest_num_logprobs > VocabSize
            \/ \E i \in 1 .. n : sampling(i) /\ Len(results[i].next_token_ids) = 0
    IN  IF raises THEN [raised |-> TRUE]
        ELSE IF Len(query_indices) = 0
        THEN [raised |-> FALSE,
              prompt_logprobs |-> <<[present |-> FALSE, items |-> <<>>]>>,
              sample_logprobs |-> << <<>> >>]
        ELSE [raised |-> FALSE,
              prompt_logprobs |->
                  [i \in 1 .. n |-> [present |-> WantsPromptLogprobs(seq_groups[i]),
                                     items |-> Prompt(i)]],
              sample_logprobs |-> [i \in 1 .. n |-> Sampled(i)]]

\* prompt_logprobs, sample_logprobs = _get_logprobs(...)
Logprobs ==
    LET res == GetLogprobs(logprobs, md, sample_results) IN
    /\ pc = "get_logprobs"
    /\ IF res.raised
       THEN pc' = "error" /\ UNCHANGED out_logprobs
       ELSE /\ pc' = "build_output"
            /\ out_logprobs' = [prompt_logprobs |-> res.prompt_logprobs,
                                sample_logprobs |-> res.sample_logprobs]
    /\ hist' = [hist EXCEPT !.stages = Append(@, "get_logprobs")]
    /\ UNCHANGED <<md, logits, tensors, include_gpu_probs_tensor, probs, logprobs,
                   sample_results, sampled_token_ids, output, generators>>

\* -------------------------------------------------------- output assembler
Min3(a, b, c) == Min(a, Min(b, c))

\* SeqOutputs reporting every token under the group's first sequence id.
SeqOutputsFirstSeq(g, sample_result, group_sample_logprobs) ==
    [j \in 1 .. Min3(Len(sample_result.parent_ids), Len(sample_result.next_token_ids),
                     Len(group_sample_logprobs)) |->
        [parent_seq_id |-> g.seq_ids[1],
         output_token |-> sample_result.next_token_ids[j],
         logprobs |-> group_sample_logprobs[j].dict,
         row |-> sample_result.rows[j]]]

\* The list of SequenceOutput of one group: zip(parent_ids, next_token_ids,
\* group_sample_logprobs).
SeqOutputs(g, sample_result, group_sample_logprobs) ==
    [j \in 1 .. Min3(Len(sample_result.parent_ids), Len(sample_result.next_token_ids),
                     Len(group_sample_logprobs)) |->
        [parent_seq_id |-> g.seq_ids[sample_result.parent_ids[j] + 1],
         output_token |-> sample_result.next_token_ids[j],
         logprobs |-> group_sample_logprobs[j].dict,
         row |-> sample_result.rows[j]]]

\* _build_sampler_output: the outputs list, one CompletionSequenceGroupOutput
\* per element of zip(seq_groups, sample_results, prompt_logprobs, sample_logprobs).
BuildSamplerOutput(metadata, results, lps) ==
    IF metadata.skip_sampler_cpu_output THEN <<>>
    ELSE [i \in 1 .. Min(Min(Len(metadata.seq_groups), Len(results)),
                         Min(Len(lps.prompt_logprobs), Len(lps.sample_logprobs))) |->
             [samples |-> SeqOutputs(metadata.seq_groups[i], results[i],
                                     lps.sample_logprobs[i]),
              prompt_logprobs |-> lps.prompt_logprobs[i]]]

\* seq_ids[parent_id] of _build_sampler_output raises IndexError.
BuildRaises(metadata, results) ==
    /\ ~metadata.skip_sampler_cpu_output
    /\ \E i \in 1 .. Min(Len(metadata.seq_groups), Len(results)) :
           \E j \in 1 .. Len(results[i].parent_ids) :
               results[i].parent_ids[j] >= Len(metadata.seq_groups[i].seq_ids)

\* return _build_sampler_output(...)
BuildOutput ==
    /\ pc = "build_output"
    /\ IF BuildRaises(md, sample_results)
       THEN pc' = "error" /\ UNCHANGED output
       ELSE /\ pc' = "done"
            /\ output' = [returned |-> TRUE,
                          outputs |-> BuildSamplerOutput(md, sample_results, out_logprobs),
                          on_device |-> include_gpu_probs_tensor,
                          sampled_token_probs |->
                              IF include_gpu_probs_tensor THEN probs ELSE <<>>,
                          logprobs |-> IF include_gpu_probs_tensor THEN logprobs ELSE <<>>,
                          sampled_token_ids |->
                              IF include_gpu_probs_tensor THEN sampled_token_ids ELSE <<>>]
    /\ hist' = [hist EXCEPT !.stages = Append(@, "build_output")]
    /\ UNCHANGED <<md, logits, tensors, include_gpu_probs_tensor, probs, logprobs,
                   sample_results, sampled_token_ids, out_logprobs, generators>>

\* The caller takes the result (or the exception) and may call again.
Return ==
    /\ pc \in {"done", "error"}
    /\ pc' = "idle"
    /\ UNCHANGED <<md, logits, tensors, include_gpu_probs_tensor, probs, logprobs,
                   sample_results, sampled_token_ids, out_logprobs, output,
                   generators, hist>>

\* ----------------------------------------------------------------- inputs
\* SamplingParams with every filter at its neutral default.
NeutralParams ==
    [temperature |-> 1, top_p |-> Den, top_k |-> 0 - 1, top_a |-> 0, min_p |-> 0,
     tfs |-> Den, eta_cutoff |-> 0, epsilon_cutoff |-> 0, typical_p |-> Den,
     smoothing_factor |-> 0, smoothing_curve |-> 1,
     presence_penalty |-> 0, frequency_penalty |-> 0, repetition_penalty |-> 1,
     min_tokens |-> 0, all_stop_token_ids |-> {},
     logprobs |-> None, prompt_logprobs |-> None,
     best_of |-> 1, use_beam_search |-> FALSE, seed |-> None,
     sampling_type |-> "RANDOM"]

\* A record with some fields replaced.
WithFields(base, changes) ==
    [f \in DOMAIN base |-> IF f \in DOMAIN changes THEN changes[f] ELSE base[f]]

\* SamplingParams.sampling_type is derived from the other fields: beam
\* search, else temperature 0 (greedy), else a seed, else random.
TypeFields(type) ==
    CASE type = "GREEDY" -> [temperature |-> 0, sampling_type |-> type]
      [] type = "BEAM" -> [temperature |-> 0, use_beam_search |-> TRUE,
                           sampling_type |-> type]
      [] type = "RANDOM_SEED" -> [seed |-> 1, sampling_type |-> type]
      [] OTHER -> [sampling_type |-> type]

\* Every filter family away from its default at once.
AllActive ==
    [temperature |-> 2, top_p |-> Den - 1, top_k |-> VocabSize - 1,
     top_a |-> 1, min_p |-> 1, tfs |-> Den - 1, eta_cutoff |-> 1, epsilon_cutoff |-> 1,
     typical_p |-> Den - 1, smoothing_factor |-> 1, smoothing_curve |-> 3,
     presence_penalty |-> 1, frequency_penalty |-> 1, repetition_penalty |-> 2,
     min_tokens |-> 2, all_stop_token_ids |-> {0}]

\* A sequence group of the batch: SequenceGroupToSample with its seq_data.
\*   slot          position of the group in the batch (1-based)
\*   first_row     the first logits row the group owns
\*   prompt_rows   number of prompt-logprob rows
MakeGroup(slot, first_row, type, is_prompt, do_sample, num_seqs, prompt_rows, changes) ==
    [seq_ids |-> [j \in 1 .. num_seqs |-> 10 * slot + j - 1],
     is_prompt |-> is_prompt,
     do_sample |-> do_sample,
     prompt_logprob_indices |-> [j \in 1 .. prompt_rows |-> first_row + j - 1],
     sample_indices |-> IF do_sample
                        THEN [j \in 1 .. num_seqs |-> first_row + prompt_rows + j - 1]
                        ELSE <<>>,
     sp |-> WithFields(WithFields(NeutralParams, TypeFields(type)), changes),
     \* the chunk of the prompt this step computes: all of it when the
     \* group samples, otherwise a chunk with prompt tokens still to come
     prompt_token_ids |-> [j \in 1 .. prompt_rows + (IF do_sample THEN 1 ELSE 2) |->
                              (slot + j) % VocabSize],
     num_computed_tokens |-> 0,
     query_len |-> IF do_sample THEN prompt_rows + 1
                   ELSE IF prompt_rows = 0 THEN 1 ELSE prompt_rows,
     \* a prompt-phase sequence has no output yet; the j-th sequence of a
     \* decode-phase group has produced j tokens
     output_token_ids |-> [j \in 1 .. num_seqs |->
                              IF is_prompt THEN <<>> ELSE Repeat(1, j)],
     cumulative_logprobs |-> [j \in 1 .. num_seqs |-> IF is_prompt THEN 0 ELSE 0 - j],
     generator |-> slot]

\* What distinguishes the groups of the multi-group batches.
GroupKinds ==
    \* a prefill chunk that does not sample yet
    {[type |-> t, is_prompt |-> TRUE, do_sample |-> FALSE, num_seqs |-> 1,
      prompt_rows |-> 0, changes |-> [best_of |-> 1]] : t \in Range(SamplingTypes)}
    \cup
    \* a prompt that samples best_of tokens (beam width best_of)
    {[type |-> t, is_prompt |-> TRUE, do_sample |-> TRUE, num_seqs |-> 1,
      prompt_rows |-> 0, changes |-> [best_of |-> b]] :
        t \in Range(SamplingTypes) \ {"GREEDY"}, b \in {1, 2}}
    \cup
    {[type |-> "GREEDY", is_prompt |-> TRUE, do_sample |-> TRUE, num_seqs |-> 1,
      prompt_rows |-> 0, changes |-> [best_of |-> 1]]}
    \cup
    \* a decode step of n live sequences
    {[type |-> t, is_prompt |-> FALSE, do_sample |-> TRUE, num_seqs |-> n,
      prompt_rows |-> 0, changes |-> [best_of |-> n]] :
        t \in Range(SamplingTypes) \ {"GREEDY"}, n \in 1 .. MaxSeqs}
    \cup
    {[type |-> "GREEDY", is_prompt |-> FALSE, do_sample |-> TRUE, num_seqs |-> 1,
      prompt_rows |-> 0, changes |-> [best_of |-> 1]]}
    \cup
    \* prompts with prompt-logprob rows, and logprob requests
    {[type |-> "GREEDY", is_prompt |-> TRUE, do_sample |-> TRUE, num_seqs |-> 1,
      prompt_rows |-> 1, changes |-> [prompt_logprobs |-> 1, logprobs |-> 1]],
     [type |-> "RANDOM_SEED", is_prompt |-> TRUE, do_sample |-> FALSE, num_seqs |-> 1,
      prompt_rows |-> 1, changes |-> [prompt_logprobs |-> 0]],
     [type |-> "RANDOM", is_prompt |-> FALSE, do_sample |-> TRUE, num_seqs |-> MaxSeqs,
      prompt_rows |-> 0, changes |-> [logprobs |-> 0]],
     [type |-> "BEAM", is_prompt |-> FALSE, do_sample |-> TRUE, num_seqs |-> MaxSeqs,
      prompt_rows |-> 0, changes |-> [best_of |-> 1, logprobs |-> 2]]}
    \cup
    \* groups whose policy gates stop tokens or turns every filter on
    {[type |-> "RANDOM", is_prompt |-> FALSE, do_sample |-> TRUE, num_seqs |-> MaxSeqs,
      prompt_rows |-> 0, changes |-> [min_tokens |-> 2, all_stop_token_ids |-> {0, 1}]],
     [type |-> "RANDOM", is_prompt |-> FALSE, do_sample |-> TRUE, num_seqs |-> 1,
      prompt_rows |-> 0, changes |-> AllActive]}

\* A group whose draw-strategy tag is outside the enumeration.
UnknownKind ==
    [type |-> UnknownType, is_prompt |-> FALSE, do_sample |-> TRUE, num_seqs |-> 1,
     prompt_rows |-> 0, changes |-> [best_of |-> 1]]

KindRows(kind) == kind.prompt_rows + (IF kind.do_sample THEN kind.num_seqs ELSE 0)

\* The seq_groups of a batch of the given kinds, laid out as the row-layout
\* invariant requires: each group's prompt-logprob rows, then its
\* to-be-sampled rows, groups in batch order.
LayOut(kinds) ==
    [i \in 1 .. Len(kinds) |->
        MakeGroup(i, SumSeq([j \in 1 .. i - 1 |-> KindRows(kinds[j])]),
                  kinds[i].type, kinds[i].is_prompt, kinds[i].do_sample,
                  kinds[i].num_seqs, kinds[i].prompt_rows, kinds[i].changes)]

\* The kinds the batches of several groups are made of: for every draw
\* strategy a prefill chunk that does not sample and a decode step of one
\* sequence, a seeded prompt drawing two samples, a beam-search prompt, a
\* prompt with a prompt-logprob row, and a decode step that gates stop tokens.
CoreKinds ==
    {[type |-> t, is_prompt |-> TRUE, do_sample |-> FALSE, num_seqs |-> 1,
      prompt_rows |-> 0, changes |-> [best_of |-> 1]] : t \in Range(SamplingTypes)}
    \cup
    {[type |-> t, is_prompt |-> FALSE, do_sample |-> TRUE, num_seqs |-> 1,
      prompt_rows |-> 0, changes |-> [best_of |-> 1]] : t \in Range(SamplingTypes)}
    \cup
    {[type |-> "RANDOM_SEED", is_prompt |-> TRUE, do_sample |-> TRUE, num_seqs |-> 1,
      prompt_rows |-> 0, changes |-> [best_of |-> 2]],
     [type |-> "BEAM", is_prompt |-> TRUE, do_sample |-> TRUE, num_seqs |-> 1,
      prompt_rows |-> 0, changes |-> [best_of |-> 1]],
     [type |-> "GREEDY", is_prompt |-> TRUE, do_sample |-> TRUE, num_seqs |-> 1,
      prompt_rows |-> 1, changes |-> [prompt_logprobs |-> 1, logprobs |-> 1]],
     [type |-> "RANDOM", is_prompt |-> FALSE, do_sample |-> TRUE, num_seqs |-> MaxSeqs,
      prompt_rows |-> 0, changes |-> [min_tokens |-> 2, all_stop_token_ids |-> {0, 1}]]}

\* Prefill requests come first, then decode requests.
PrefillFirst(kinds) ==
    \A i, j \in 1 .. Len(kinds) : (i < j /\ kinds[j].is_prompt) => kinds[i].is_prompt

\* The batches: the empty batch, every kind alone, and the batches of up to
\* MaxGroups groups of the core kinds.
KindLists ==
    {<<>>} \cup {<<k>> : k \in GroupKinds \cup {UnknownKind}}
    \cup {ks \in UNION {[1 .. n -> CoreKinds] : n \in 2 .. MaxGroups} : PrefillFirst(ks)}

\* The rows of logits of the single-row batches: every row of two levels,
\* a rising and a falling row, and a row with a -inf entry.
LogitVals == {0 - 2, 2}

RowChoices ==
    [Vocab -> LogitVals]
    \cup {[t \in Vocab |-> 2 * t - 2], [t \in Vocab |-> 2 * (VocabSize - 1 - t) - 2],
          [t \in Vocab |-> IF t = 0 THEN NegInf ELSE 2 * t - 2]}

\* The model's logits for a batch: row r (0-based) of layout v.
BatchLogits(n) ==
    [r1 \in 1 .. n |-> [t \in Vocab |-> 2 * ((r1 + t) % 3) - 2]]

Metadata(seq_groups, reuse, skip) ==
    [seq_groups |-> seq_groups, reuse_sampling_tensors |-> reuse,
     skip_sampler_cpu_output |-> skip]

\* The generators of the requests of a batch, each seeded by its request.
InitGenerators == [slot \in 1 .. MaxGroups |-> (7 * slot) % 16]

\* One field, or one family of fields, away from its default.
FieldChoices ==
    {[top_p |-> 0], [top_p |-> Den \div 2],
     [top_k |-> 1], [top_k |-> VocabSize - 1],
     [top_a |-> Den \div 2], [top_a |-> Den], [top_a |-> 2 * Den],
     [min_p |-> Den \div 2], [min_p |-> Den],
     [tfs |-> 0], [tfs |-> Den \div 2],
     [eta_cutoff |-> Den \div 2],
     [epsilon_cutoff |-> 1], [epsilon_cutoff |-> Den \div 2],
     [typical_p |-> 0], [typical_p |-> Den \div 2],
     [smoothing_factor |-> 1], [smoothing_factor |-> 1, smoothing_curve |-> 3],
     [temperature |-> 0], [temperature |-> 2],
     [presence_penalty |-> 1], [frequency_penalty |-> 1], [repetition_penalty |-> 2],
     [min_tokens |-> 2, all_stop_token_ids |-> {0}],
     [min_tokens |-> 2, all_stop_token_ids |-> {0, 1}],
     [min_tokens |-> 1, all_stop_token_ids |-> {0}]}

\* The policies with at most n families away from their defaults, as changes
\* to NeutralParams.
RECURSIVE ChangesUpTo(_)
ChangesUpTo(n) ==
    IF n = 0 THEN {<<>>}
    ELSE LET fewer == ChangesUpTo(n - 1)
         IN  fewer \cup
             {[f \in (DOMAIN c) \cup (DOMAIN d) |-> IF f \in DOMAIN d THEN d[f] ELSE c[f]] :
                 c \in fewer, d \in FieldChoices}

RowPolicies == ChangesUpTo(MaxActive) \cup {AllActive}

\* A batch of one decode-phase group with one sequence and one logits row.
RowBatch(changes) ==
    <<MakeGroup(1, 0,
                IF "temperature" \in DOMAIN changes /\ changes.temperature = 0
                THEN "GREEDY" ELSE "RANDOM",
                FALSE, TRUE, 1, 0, changes)>>

\* The policies of the greedy single-row batches: temperature stays 0, any
\* other family may be away from its default.
GreedyPolicies == {c \in RowPolicies : "temperature" \notin DOMAIN c}

\* A batch of one greedy decode-phase group with one sequence and one row.
GreedyBatch(changes) == <<MakeGroup(1, 0, "GREEDY", FALSE, TRUE, 1, 0, changes)>>

\* The groups of the calls that share one Sampler's cached tensors.
CacheKinds ==
    {[type |-> "RANDOM", is_prompt |-> FALSE, do_sample |-> TRUE, num_seqs |-> n,
      prompt_rows |-> 0, changes |-> c] :
        n \in 1 .. MaxSeqs,
        c \in {<<>>, [repetition_penalty |-> 2], [frequency_penalty |-> 1],
               [top_k |-> 1], [temperature |-> 2], AllActive}}

\* The groups of the calls on one Sampler whose cached tensors the next call
\* may reuse: a random decode step of 1 .. MaxSeqs sequences whose policy
\* has no penalty and at most one filter active, and one with every filter
\* and the penalties active.
ReuseKinds ==
    {[type |-> "RANDOM", is_prompt |-> FALSE, do_sample |-> TRUE, num_seqs |-> n,
      prompt_rows |-> 0, changes |-> c] :
        n \in 1 .. MaxSeqs,
        c \in {<<>>, [top_a |-> 1], [min_p |-> 1], [smoothing_factor |-> 1],
               [top_k |-> 1], AllActive}}

\* The groups of the batches that ask for log-probabilities: a greedy and a
\* random decode step and a prompt with a prompt-logprob row, each with its
\* own number of top tokens, a beam-search decode step, and a decode step
\* whose policy turns every filter on.
LogprobKinds ==
    {[type |-> "GREEDY", is_prompt |-> FALSE, do_sample |-> TRUE, num_seqs |-> 1,
      prompt_rows |-> 0, changes |-> [logprobs |-> l]] :
        l \in {None} \cup (0 .. VocabSize - 1)}
    \cup
    {[type |-> "RANDOM", is_prompt |-> FALSE, do_sample |-> TRUE, num_seqs |-> 2,
      prompt_rows |-> 0, changes |-> [logprobs |-> l]] : l \in 0 .. VocabSize - 1}
    \cup
    {[type |-> "GREEDY", is_prompt |-> TRUE, do_sample |-> TRUE, num_seqs |-> 1,
      prompt_rows |-> 1, changes |-> [prompt_logprobs |-> l, logprobs |-> 1]] :
        l \in 0 .. VocabSize - 1}
    \cup
    {[type |-> "BEAM", is_prompt |-> FALSE, do_sample |-> TRUE, num_seqs |-> MaxSeqs,
      prompt_rows |-> 0, changes |-> [best_of |-> 1, logprobs |-> 1]],
     [type |-> "RANDOM", is_prompt |-> FALSE, do_sample |-> TRUE, num_seqs |-> 1,
      prompt_rows |-> 0, changes |-> AllActive]}

\* The batches of one or two such groups.
LogprobKindLists ==
    {<<k>> : k \in LogprobKinds}
    \cup {ks \in [1 .. 2 -> LogprobKinds] : PrefillFirst(ks)}

\* The model's logits for such a batch: all entries distinct, the two
\* largest equal, or all equal.
TiedLogits(n, layout) ==
    [r1 \in 1 .. n |->
        [t \in Vocab |->
            IF layout = 0 THEN 2 * ((r1 + t) % VocabSize) - 2
            ELSE IF layout = 1 THEN (IF (r1 + t) % VocabSize = 0 THEN 0 ELSE 2)
            ELSE 2]]

\* The rows of logits of the two-row batches: the rows of the single-row
\* batches and a row with an entry so far below the maximum that its
\* probability underflows to zero.
MixedRows ==
    RowChoices \cup {[t \in Vocab |-> IF t = 0 THEN 0 - (FracBits + 2) ELSE 2]}

\* The policies of the first request of the two-row batches: the defaults,
\* one family away from its default, every family at once, or a repetition
\* coefficient of zero.
MixedPolicies == ChangesUpTo(1) \cup {AllActive, [repetition_penalty |-> 0]}

\* A batch of two decode-phase requests with one sequence each: the first
\* with the given policy, the second with every filter at its default.
MixedBatch(changes) ==
    <<MakeGroup(1, 0,
                IF "temperature" \in DOMAIN changes /\ changes.temperature = 0
                THEN "GREEDY" ELSE "RANDOM",
                FALSE, TRUE, 1, 0, changes),
      MakeGroup(2, 1, "RANDOM", FALSE, TRUE, 1, 0, <<>>)>>

\* ------------------------------------------------------- specifications
Init ==
    /\ InitSampler
    /\ include_gpu_probs_tensor = FALSE
    /\ generators = InitGenerators

\* A speculative-decoding worker turns the on-device tensors on, between
\* two calls of forward.
SetIncludeGpuProbsTensor ==
    /\ pc = "idle"
    /\ ~include_gpu_probs_tensor
    /\ include_gpu_probs_tensor' = TRUE
    /\ UNCHANGED <<pc, md, logits, tensors, probs, logprobs, sample_results,
                   sampled_token_ids, out_logprobs, output, generators, hist>>

\* One step of the engine: a batch of up to MaxGroups groups and its logits;
\* rows_off is the difference between the rows of the logits matrix and the
\* rows the descriptor accounts for.
ForwardBatch ==
    \E kinds \in KindLists, skip \in BOOLEAN, rows_off \in {0 - 1, 0, 1} :
        LET n == SumSeq([i \in 1 .. Len(kinds) |-> KindRows(kinds[i])]) + rows_off IN
        /\ n >= 0
        /\ Len(kinds) > 1 => (~skip /\ rows_off = 0)
        /\ Forward(Metadata(LayOut(kinds), FALSE, skip), BatchLogits(n))

\* One step over a single row, for every policy and every row of logits.
ForwardRow ==
    \E changes \in RowPolicies, row \in RowChoices :
        Forward(Metadata(RowBatch(changes), FALSE, FALSE), <<row>>)

\* One step over a single greedy row, for every policy and every row.
ForwardGreedy ==
    \E changes \in GreedyPolicies, row \in RowChoices :
        Forward(Metadata(GreedyBatch(changes), FALSE, FALSE), <<row>>)

\* One step over a batch whose groups ask for log-probabilities.
ForwardLogprobs ==
    \E kinds \in LogprobKindLists, layout \in 0 .. 2 :
        Forward(Metadata(LayOut(kinds), FALSE, FALSE),
                TiedLogits(SumSeq([i \in 1 .. Len(kinds) |-> KindRows(kinds[i])]),
                           layout))

\* One step over two rows of equal logits, the second request's policy
\* being the default one.
ForwardMixed ==
    \E changes \in MixedPolicies, row \in MixedRows :
        Forward(Metadata(MixedBatch(changes), FALSE, FALSE), <<row, row>>)

\* One of a sequence of steps on the same Sampler, with or without the
\* caller's reuse flag.
ForwardCached ==
    \E kind \in CacheKinds, reuse \in BOOLEAN :
        Forward(Metadata(LayOut(<<kind>>), reuse, FALSE), BatchLogits(KindRows(kind)))

Next ==
    \/ ForwardBatch
    \/ SetIncludeGpuProbsTensor
    \/ MinTokens
    \/ Penalties
    \/ Temperature
    \/ TopKTopP
    \/ TopA
    \/ MinP
    \/ Tfs
    \/ EtaCutoff
    \/ EpsilonCutoff
    \/ Typical
    \/ Quadratic
    \/ ComputeProbs
    \/ Sample
    \/ Logprobs
    \/ BuildOutput

Spec == Init /\ [][Next]_vars

NextRow ==
    \/ ForwardRow
    \/ SetIncludeGpuProbsTensor
    \/ MinTokens
    \/ Penalties
    \/ Temperature
    \/ TopKTopP
    \/ TopA
    \/ MinP
    \/ Tfs
    \/ EtaCutoff
    \/ EpsilonCutoff
    \/ Typical
    \/ Quadratic
    \/ ComputeProbs
    \/ Sample
    \/ Logprobs
    \/ BuildOutput

SpecRow == Init /\ [][NextRow]_vars

\* One of a sequence of decode steps on the same Sampler whose policies may
\* run the transforms that reshape the cached tensors.
ForwardReuse ==
    \E kind \in ReuseKinds, reuse \in BOOLEAN :
        /\ (reuse /\ tensors.present) =>
               \A name \in DOMAIN tensors.trailing_dims :
                   tensors.trailing_dims[name] < MaxTrailingDims
        /\ Forward(Metadata(LayOut(<<kind>>), reuse, FALSE),
                   BatchLogits(KindRows(kind)))

NextReuse ==
    \/ ForwardReuse
    \/ SetIncludeGpuProbsTensor
    \/ MinTokens
    \/ Penalties
    \/ Temperature
    \/ TopKTopP
    \/ TopA
    \/ MinP
    \/ Tfs
    \/ EtaCutoff
    \/ EpsilonCutoff
    \/ Typical
    \/ Quadratic
    \/ ComputeProbs
    \/ Sample
    \/ Logprobs
    \/ BuildOutput
    \/ Return

SpecReuse == Init /\ [][NextReuse]_vars

NextCached ==
    \/ ForwardCached
    \/ SetIncludeGpuProbsTensor
    \/ MinTokens
    \/ Penalties
    \/ Temperature
    \/ TopKTopP
    \/ TopA
    \/ MinP
    \/ Tfs
    \/ EtaCutoff
    \/ EpsilonCutoff
    \/ Typical
    \/ Quadratic
    \/ ComputeProbs
    \/ Sample
    \/ Logprobs
    \/ BuildOutput
    \/ Return

SpecCached == Init /\ [][NextCached]_vars

NextGreedy ==
    \/ ForwardGreedy
    \/ SetIncludeGpuProbsTensor
    \/ MinTokens
    \/ Penalties
    \/ Temperature
    \/ TopKTopP
    \/ TopA
    \/ MinP
    \/ Tfs
    \/ EtaCutoff
    \/ EpsilonCutoff
    \/ Typical
    \/ Quadratic
    \/ ComputeProbs
    \/ Sample
    \/ Logprobs
    \/ BuildOutput

SpecGreedy == Init /\ [][NextGreedy]_vars

NextLogprobs ==
    \/ ForwardLogprobs
    \/ SetIncludeGpuProbsTensor
    \/ MinTokens
    \/ Penalties
    \/ Temperature
    \/ TopKTopP
    \/ TopA
    \/ MinP
    \/ Tfs
    \/ EtaCutoff
    \/ EpsilonCutoff
    \/ Typical
    \/ Quadratic
    \/ ComputeProbs
    \/ Sample
    \/ Logprobs
    \/ BuildOutput

SpecLogprobs == Init /\ [][NextLogprobs]_vars

NextMixed ==
    \/ ForwardMixed
    \/ SetIncludeGpuProbsTensor
    \/ MinTokens
    \/ Penalties
    \/ Temperature
    \/ TopKTopP
    \/ TopA
    \/ MinP
    \/ Tfs
    \/ EtaCutoff
    \/ EpsilonCutoff
    \/ Typical
    \/ Quadratic
    \/ ComputeProbs
    \/ Sample
    \/ Logprobs
    \/ BuildOutput

SpecMixed == Init /\ [][NextMixed]_vars

\* ----------------------------------------------------------- properties
\* A call that returned its host-side result list.
Returned == pc = "done" /\ ~md.skip_sampler_cpu_output

\* The draw stage of the call has run and did not raise.
Drawn ==
    /\ pc \in {"get_logprobs", "build_output", "done"}
    /\ ~md.skip_sampler_cpu_output

\* The logits rows a group owns.
OwnedRows(g) == Range(g.prompt_logprob_indices) \cup Range(g.sample_indices)

\* C1: with host output enabled, forward returns a result list with exactly
\* one entry per input sequence group, in input order, whatever the mix of
\* strategies, do_sample flags and logprob requests.
C1_OneEntryPerGroup ==
    Returned =>
        /\ Len(output.outputs) = Len(md.seq_groups)
        /\ \A i \in 1 .. Len(output.outputs) :
               \A j \in 1 .. Len(output.outputs[i].samples) :
                   output.outputs[i].samples[j].parent_seq_id
                       \in Range(md.seq_groups[i].seq_ids)

\* C2: every token reported for a group was selected from that group's own
\* to-be-sampled row sample_indices[0] + parent id, a row no other group
\* owns, and is reported under seq_ids[parent_id] of the same group.
C2_OwnRowOwnSequence ==
    Returned =>
        \A i \in 1 .. Len(output.outputs) :
            LET g == md.seq_groups[i]
                res == sample_results[i]
                out == output.outputs[i].samples
            IN  \A j \in 1 .. Len(out) :
                    /\ res.parent_ids[j] \in 0 .. Len(g.seq_ids) - 1
                    /\ out[j].row = g.sample_indices[1] + res.parent_ids[j]
                    /\ out[j].row \in Range(g.sample_indices)
                    /\ \A k \in 1 .. Len(md.seq_groups) :
                           k # i => out[j].row \notin OwnedRows(md.seq_groups[k])
                    /\ out[j].parent_seq_id = g.seq_ids[res.parent_ids[j] + 1]
                    /\ out[j].output_token = res.next_token_ids[j]
                    /\ g.sp.sampling_type = "GREEDY" =>
                           out[j].output_token = ArgMax(logprobs[out[j].row + 1])
                    /\ g.sp.sampling_type \in {"RANDOM", "RANDOM_SEED"} =>
                           hist.draw_in.probs[out[j].row + 1][out[j].output_token] > 0

\* A returned batch of two groups of different strategies that both sampled.
C2_Witness ==
    /\ Returned
    /\ Len(output.outputs) = 2
    /\ md.seq_groups[1].sp.sampling_type # md.seq_groups[2].sp.sampling_type
    /\ Len(output.outputs[1].samples) > 0
    /\ Len(output.outputs[2].samples) > 0
    /\ output.outputs[2].samples[1].row > 0

\* The batch without its do_sample=False groups.
SamplingGroupsOnly(metadata) ==
    [metadata EXCEPT !.seq_groups = SelectSeq(@, LAMBDA g : g.do_sample)]

\* The position of the i-th group among the groups that sample.
SamplingRank(seq_groups, i) ==
    Cardinality({k \in 1 .. i : seq_groups[k].do_sample})

\* C3: a do_sample=False group receives ([], []) and consumes no row of the
\* draw stage; every do_sample=True group reads its own block of its
\* partition's rows and its result is the one it gets when the
\* do_sample=False groups are absent from the batch.
C3_NoSampleGroupsAreAbsent ==
    Drawn =>
        \E noise_seed \in UnseededStates(md) :
            LET full == SampleWithTorch(md, hist.draw_in.probs, logprobs,
                                        hist.draw_in.generators,
                                        include_gpu_probs_tensor, noise_seed)
                alone == SampleWithTorch(SamplingGroupsOnly(md), hist.draw_in.probs,
                                         logprobs, hist.draw_in.generators,
                                         include_gpu_probs_tensor, noise_seed)
            IN  /\ ~full.raised
                /\ full.sample_results = sample_results
                /\ ~alone.raised
                /\ \A i \in 1 .. Len(md.seq_groups) :
                       IF md.seq_groups[i].do_sample
                       THEN /\ sample_results[i] =
                                   alone.sample_results[SamplingRank(md.seq_groups, i)]
                            /\ Range(sample_results[i].rows)
                                   \subseteq Range(md.seq_groups[i].sample_indices)
                       ELSE /\ sample_results[i].next_token_ids = <<>>
                            /\ sample_results[i].parent_ids = <<>>

\* The last transform of the call has run: the logits are final.
PipelineDone == pc \in {"softmax", "sample", "get_logprobs", "build_output", "done"}

\* C4: a row with a finite logit on entry still has an entry that is not
\* -inf after the last stage of the pipeline, whatever filters are active
\* and whatever their parameters.
C4_RowKeepsAToken ==
    PipelineDone =>
        \A r1 \in DOMAIN logits :
            (\E t \in Vocab : hist.logits_in[r1][t] # NegInf)
                => \E t \in Vocab : logits[r1][t] # NegInf

RowMismatch ==
    SumSeq([i \in 1 .. Len(md.seq_groups) |->
               Len(md.seq_groups[i].prompt_logprob_indices)
               + Len(md.seq_groups[i].sample_indices)]) # NumRows(hist.logits_in)

\* A group carries a draw-strategy tag outside the enumeration.
UnknownTag ==
    \E i \in 1 .. Len(md.seq_groups) :
        md.seq_groups[i].sp.sampling_type \notin {"GREEDY", "RANDOM", "RANDOM_SEED", "BEAM"}

\* C6: on a row-count mismatch or an unknown draw-strategy tag forward
\* aborts with an error and returns no result list.
C6_AbortsWithoutResult ==
    (pc # "idle" /\ (RowMismatch \/ UnknownTag)) =>
        /\ pc # "done"
        /\ ~output.returned
        /\ (RowMismatch /\ Len(hist.stages) >= 1) => pc = "error"
        /\ (UnknownTag /\ "sample" \in Range(hist.stages)) => pc = "error"

\* A call on a matrix with a row too many, aborted by the gate.
C6_Witness ==
    /\ pc = "error"
    /\ RowMismatch
    /\ NumRows(hist.logits_in) = 2
    /\ hist.stages = <<"min_tokens">>
    /\ ~output.returned

\* The order the claim gives to the stages of a call.
C7_Order ==
    <<"min_tokens", "penalties", "temperature", "top_k_top_p", "top_a", "min_p",
      "tfs", "eta_cutoff", "epsilon_cutoff", "typical", "quadratic", "softmax",
      "sample", "get_logprobs", "build_output">>

C7_Pos(stage) == CHOOSE i \in 1 .. Len(C7_Order) : C7_Order[i] = stage

\* C7: the transforms run in the fixed order gate, penalties, temperature,
\* top-k/top-p, top-a, min-p, tail-free, eta, epsilon, typical, quadratic;
\* probabilities and log-probabilities are computed from the logits the last
\* transform left, and before any draw.
C7_FixedOrder ==
    /\ \A i, j \in 1 .. Len(hist.stages) :
           i < j => C7_Pos(hist.stages[i]) < C7_Pos(hist.stages[j])
    /\ "softmax" \notin Range(hist.stages) => (probs = <<>> /\ logprobs = <<>>)
    /\ "sample" \in Range(hist.stages) => "softmax" \in Range(hist.stages)
    /\ pc = "sample" =>
           /\ probs = [r1 \in DOMAIN logits |-> Softmax(logits[r1])]
           /\ logprobs = [r1 \in DOMAIN logits |-> LogSoftmax(logits[r1])]
           /\ \A stage \in Range(C7_Order)
                              \ {"softmax", "sample", "get_logprobs", "build_output"} :
                  StageActive(stage, tensors) => stage \in Range(hist.stages)

\* A call in which every transform ran, about to draw.
C7_Witness ==
    /\ pc = "sample"
    /\ Len(hist.stages) = 12

\* C8: the gate sets to -inf exactly the stop-token entries of the
\* to-be-sampled rows of sequences still below min_tokens, leaves every other
\* entry of the matrix unchanged, and runs before any other transform.
C8_GateFrame ==
    ("min_tokens" \in Range(hist.stages) /\ ~(pc = "error" /\ Len(hist.stages) = 1)) =>
        /\ hist.stages[1] = "min_tokens"
        /\ \A r1 \in DOMAIN hist.logits_in : \A t \in Vocab :
               LET gated ==
                       \E i \in 1 .. Len(md.seq_groups) :
                           LET g == md.seq_groups[i] IN
                           /\ g.do_sample
                           /\ g.sp.min_tokens > 0
                           /\ t \in g.sp.all_stop_token_ids
                           /\ \E j \in 1 .. Len(g.seq_ids) :
                                  /\ g.sample_indices[j] = r1 - 1
                                  /\ Len(g.output_token_ids[j]) < g.sp.min_tokens
               IN  hist.gate_out[r1][t] = IF gated THEN NegInf ELSE hist.logits_in[r1][t]

\* The gate has masked a stop token of one sequence of a group and left the
\* row of another sequence of the same group, which reached min_tokens.
C8_Witness ==
    /\ pc = "temperature"
    /\ hist.stages = <<"min_tokens">>
    /\ \E r1 \in DOMAIN hist.logits_in : \E t \in Vocab :
           hist.gate_out[r1][t] = NegInf /\ hist.logits_in[r1][t] # NegInf
    /\ \E i \in 1 .. Len(md.seq_groups) :
           LET g == md.seq_groups[i] IN
           /\ g.do_sample /\ g.sp.min_tokens > 0
           /\ \E j \in 1 .. Len(g.seq_ids) :
                  /\ Len(g.output_token_ids[j]) >= g.sp.min_tokens
                  /\ hist.gate_out[g.sample_indices[j] + 1]
                         = hist.logits_in[g.sample_indices[j] + 1]

RowPolicy(seq_groups, r) ==
    seq_groups[CHOOSE i \in 1 .. Len(seq_groups) : r \in OwnedRows(seq_groups[i])].sp

TruncationStages ==
    {"top_k_top_p", "top_a", "min_p", "tfs", "eta_cutoff", "epsilon_cutoff", "typical"}

\* The tokens the typical filter may exempt in a row: those of the smallest
\* surprisal deviation.
MostTypical(row) ==
    LET dev == SurprisalDeviations(row)
    IN  {t \in Vocab : \A u \in Vocab : dev[t] <= dev[u]}

\* No enabled filter exempts a token other than an arg-max of the row: the
\* typical filter (the one filter whose exempted token is not chosen by
\* value) is off, or it is the first truncation stage and exempts an arg-max.
ExemptsOnlyArgMax(row) ==
    \/ "typical" \notin Range(hist.stages)
    \/ /\ \A i \in 1 .. Len(hist.stages) :
              hist.stages[i] \in TruncationStages => hist.stages[i] = "typical"
       /\ \A t \in MostTypical(row) : row[t] = RowMax(row)

\* C11: the token a greedy group reports is the arg-max of its row's
\* post-pipeline log-probabilities, and it is an arg-max of the row as it
\* entered the truncation stages, whichever truncation filters ran, provided
\* none of them exempts a different token.
C11_GreedyIsArgMax ==
    Drawn =>
        \A i \in 1 .. Len(md.seq_groups) :
            LET g == md.seq_groups[i] IN
            (g.sp.sampling_type = "GREEDY" /\ g.do_sample) =>
                LET r1 == g.sample_indices[1] + 1
                    token == sample_results[i].next_token_ids[1]
                IN  /\ sample_results[i].next_token_ids = <<ArgMax(logprobs[r1])>>
                    /\ ExemptsOnlyArgMax(hist.trunc_in[r1]) =>
                           hist.trunc_in[r1][token] = RowMax(hist.trunc_in[r1])

\* A second call whose batch is one group of the first call by itself: the
\* same policy and sequences, the rows the group samples from at rows 0..n-1.
CallAlone(g) ==
    Metadata(<<[g EXCEPT !.prompt_logprob_indices = <<>>,
                         !.sample_indices = [j \in 1 .. Len(g.sample_indices) |-> j - 1]]>>,
             FALSE, FALSE)

\* The rows of a matrix a group samples from, as the matrix of CallAlone.
RowsAlone(g, m) == [j \in 1 .. Len(g.sample_indices) |-> m[g.sample_indices[j] + 1]]

\* C12: a seeded-random group draws the tokens a second call draws from the
\* same probability rows with the same policy and the group's generator in
\* the same state.
C12_SeededReproducible ==
    Drawn =>
        \A i \in 1 .. Len(md.seq_groups) :
            LET g == md.seq_groups[i]
                again == SampleWithTorch(CallAlone(g),
                                         RowsAlone(g, hist.draw_in.probs),
                                         RowsAlone(g, logprobs),
                                         hist.draw_in.generators,
                                         include_gpu_probs_tensor, 0)
            IN  (g.sp.sampling_type = "RANDOM_SEED" /\ g.do_sample) =>
                    /\ ~again.raised
                    /\ sample_results[i].next_token_ids
                           = again.sample_results[1].next_token_ids

\* C13: a random or seeded-random prompt group yields exactly best_of
\* tokens, all with parent id 0 and all drawn from its single row; a decode
\* group yields one token per live sequence, parent ids 0..n-1, the i-th drawn
\* from the i-th row of the group: the row cursor of the partition advances
\* by the number of sequences of each group.
C13_RandomSampleShape ==
    Drawn =>
        \A i \in 1 .. Len(md.seq_groups) :
            LET g == md.seq_groups[i]
                res == sample_results[i]
                n == Len(g.seq_ids)
            IN  (g.sp.sampling_type \in {"RANDOM", "RANDOM_SEED"} /\ g.do_sample) =>
                    /\ \A j \in 1 .. Len(res.next_token_ids) :
                           LET p == hist.draw_in.probs[res.rows[j] + 1]
                           IN  (\E t \in Vocab : p[t] > 0) => p[res.next_token_ids[j]] > 0
                    /\ IF g.is_prompt
                       THEN /\ Len(res.next_token_ids) = g.sp.best_of
                            /\ res.parent_ids = [j \in 1 .. g.sp.best_of |-> 0]
                            /\ res.rows = [j \in 1 .. g.sp.best_of |-> g.sample_indices[1]]
                       ELSE /\ Len(res.next_token_ids) = n
                            /\ res.parent_ids = [j \in 1 .. n |-> j - 1]
                            /\ res.rows = g.sample_indices

\* A seeded prompt that drew two samples from its row, batched with a random
\* decode group of several sequences that drew one token per row.
C13_Witness ==
    /\ Drawn
    /\ \E i, k \in 1 .. Len(md.seq_groups) :
           /\ md.seq_groups[i].is_prompt
           /\ md.seq_groups[i].sp.sampling_type = "RANDOM_SEED"
           /\ Len(sample_results[i].next_token_ids) = 2
           /\ ~md.seq_groups[k].is_prompt
           /\ md.seq_groups[k].sp.sampling_type = "RANDOM"
           /\ Len(sample_results[k].next_token_ids) >= 2
           /\ sample_results[k].rows[2] = sample_results[k].rows[1] + 1

\* C14: a beam-search prompt group with one parent sequence and beam width B
\* (2B within the vocabulary) yields exactly 2B tokens, all with parent id 0:
\* the 2B tokens of highest log-probability in the group's row.
C14_BeamPromptTop2B ==
    Drawn =>
        \A i \in 1 .. Len(md.seq_groups) :
            LET g == md.seq_groups[i]
                res == sample_results[i]
                B == g.sp.best_of
            IN  (/\ g.sp.sampling_type = "BEAM" /\ g.do_sample /\ g.is_prompt
                 /\ Len(g.seq_ids) = 1 /\ 2 * B <= VocabSize) =>
                    LET row == logprobs[g.sample_indices[1] + 1]
                        chosen == Range(res.next_token_ids)
                    IN  /\ Len(res.next_token_ids) = 2 * B
                        /\ Cardinality(chosen) = 2 * B
                        /\ res.parent_ids = [j \in 1 .. 2 * B |-> 0]
                        /\ \A t \in chosen : \A u \in Vocab \ chosen : row[t] >= row[u]
                        /\ \A j \in 1 .. 2 * B - 1 :
                               row[res.next_token_ids[j]] >= row[res.next_token_ids[j + 1]]

\* A beam-search prompt has expanded into candidates, leaving out a token of
\* lower log-probability.
C14_Witness ==
    /\ Drawn
    /\ \E i \in 1 .. Len(md.seq_groups) :
           LET g == md.seq_groups[i]
               res == sample_results[i]
           IN  /\ g.sp.sampling_type = "BEAM" /\ g.is_prompt
               /\ Len(res.next_token_ids) = 2 * g.sp.best_of
               /\ \E u \in Vocab \ Range(res.next_token_ids) :
                      logprobs[g.sample_indices[1] + 1][u]
                          < logprobs[g.sample_indices[1] + 1][res.next_token_ids[2]]

\* The rows of the to-be-sampled sequences of the greedy groups.
GreedyRows ==
    UNION {Range(md.seq_groups[i].sample_indices) :
              i \in {k \in 1 .. Len(md.seq_groups) :
                         /\ md.seq_groups[k].sp.sampling_type = "GREEDY"
                         /\ md.seq_groups[k].do_sample}}

\* C15: with on-device tensors exposed, every greedy-sampled row of the
\* returned probability tensor is one-hot at the sampled token, every other
\* row is the softmax of the final logits, the returned log-probability
\* tensor is the log_softmax of the final logits on every row, and the
\* log-probability reported for a greedy token is read from it.
C15_GreedyRowsOneHot ==
    (pc = "done" /\ include_gpu_probs_tensor) =>
        /\ output.on_device
        /\ output.logprobs = [r1 \in DOMAIN logits |-> LogSoftmax(logits[r1])]
        /\ DOMAIN output.sampled_token_probs = DOMAIN logits
        /\ \A r1 \in DOMAIN logits :
               IF (r1 - 1) \in GreedyRows
               THEN output.sampled_token_probs[r1] =
                        [t \in Vocab |->
                            IF t = output.sampled_token_ids[r1] THEN 1 ELSE 0]
               ELSE output.sampled_token_probs[r1] = Softmax(logits[r1])
        /\ ~md.skip_sampler_cpu_output =>
               \A i \in 1 .. Len(output.outputs) :
                   LET g == md.seq_groups[i]
                       out == output.outputs[i].samples
                   IN  (g.sp.sampling_type = "GREEDY" /\ g.do_sample) =>
                           /\ Len(out) = 1
                           /\ out[1].output_token
                                  = output.sampled_token_ids[g.sample_indices[1] + 1]
                           /\ g.sp.logprobs # None =>
                                  out[1].logprobs[out[1].output_token].logprob
                                      = LogSoftmax(logits[g.sample_indices[1] + 1])
                                            [out[1].output_token]

\* A returned batch with on-device tensors in which a greedy row was pinned
\* to its token and a row of another strategy was left as computed.
C15_Witness ==
    /\ pc = "done"
    /\ include_gpu_probs_tensor
    /\ ~md.skip_sampler_cpu_output
    /\ \E r1, r2 \in DOMAIN logits :
           /\ (r1 - 1) \in GreedyRows
           /\ output.sampled_token_probs[r1] # Softmax(logits[r1])
           /\ (r2 - 1) \notin GreedyRows
    /\ \E i \in 1 .. Len(md.seq_groups) :
           /\ md.seq_groups[i].sp.sampling_type = "GREEDY"
           /\ md.seq_groups[i].do_sample
           /\ md.seq_groups[i].sp.logprobs # None

\* The entries reported for the chosen tokens of the returned call: the
\* sampled tokens and the next prompt tokens, each with its map and the row
\* its log-probability was read from.
ChosenEntries ==
    UNION {{[token |-> sample_results[i].next_token_ids[j],
             item |-> out_logprobs.sample_logprobs[i][j]] :
                j \in 1 .. Len(out_logprobs.sample_logprobs[i])}
           \cup
           {[token |-> GetNextPromptTokens(md.seq_groups[i])[j],
             item |-> out_logprobs.prompt_logprobs[i].items[j]] :
                j \in 1 .. Len(out_logprobs.prompt_logprobs[i].items)} :
              i \in 1 .. Min(Len(md.seq_groups), Len(out_logprobs.sample_logprobs))}

\* C16: the rank reported for a chosen token is one plus the number of
\* vocabulary entries of its row whose log-probability is strictly greater,
\* also when top tokens are requested and the chosen token is among them.
C16_RankCountsStrictlyGreater ==
    pc = "done" =>
        \A e \in ChosenEntries :
            e.item.query_row # None =>
                e.item.dict[e.token].rank
                    = 1 + Cardinality({t \in Vocab :
                              logprobs[e.item.query_row + 1][t]
                                  > logprobs[e.item.query_row + 1][e.token]})

\* The map reported for token, read from log-probability row row, holds the
\* token's own entry and the n highest tokens of the row, each with its
\* log-probability.
OwnAndTop(dict, token, row, n) ==
    /\ token \in DOMAIN dict
    /\ \A t \in DOMAIN dict : dict[t].logprob = row[t]
    /\ \E top \in SUBSET Vocab :
           /\ Cardinality(top) = n
           /\ \A a \in top, b \in Vocab \ top : row[a] >= row[b]
           /\ DOMAIN dict = {token} \cup top

\* The number of top tokens a request asks for; none when it asks for no
\* log-probabilities.
Requested(num_logprobs) == IF num_logprobs = None THEN 0 ELSE num_logprobs

\* C17: the map of every reported token holds the token's own entry plus
\* the number of top tokens its own request asked for, whatever the largest
\* number asked for in the batch; a request for zero top tokens gets the
\* token's own entry only.
C17_OwnNumberOfTopTokens ==
    pc = "done" =>
        \A i \in 1 .. Min(Len(md.seq_groups), Len(out_logprobs.sample_logprobs)) :
            LET g == md.seq_groups[i]
                sampled == out_logprobs.sample_logprobs[i]
                prompt == out_logprobs.prompt_logprobs[i].items
            IN  /\ \A j \in 1 .. Len(sampled) :
                       sampled[j].query_row # None =>
                           OwnAndTop(sampled[j].dict,
                                     sample_results[i].next_token_ids[j],
                                     logprobs[sampled[j].query_row + 1],
                                     Requested(g.sp.logprobs))
                /\ \A j \in 1 .. Len(prompt) :
                       OwnAndTop(prompt[j].dict,
                                 GetNextPromptTokens(g)[j],
                                 logprobs[prompt[j].query_row + 1],
                                 Requested(g.sp.prompt_logprobs))

\* A returned batch of two requests that ask for different numbers of top
\* tokens, one of them for none, and one for fewer than the largest.
C17_Witness ==
    /\ pc = "done"
    /\ Len(md.seq_groups) = 2
    /\ Len(out_logprobs.sample_logprobs) = 2
    /\ \E i, k \in 1 .. 2 :
           /\ md.seq_groups[i].sp.logprobs \in 0 .. 1
           /\ md.seq_groups[k].sp.logprobs = 2
           /\ \E j \in 1 .. Len(out_logprobs.sample_logprobs[i]) :
                  Cardinality(DOMAIN out_logprobs.sample_logprobs[i][j].dict) <= 2
           /\ \E j \in 1 .. Len(out_logprobs.sample_logprobs[k]) :
                  Cardinality(DOMAIN out_logprobs.sample_logprobs[k][j].dict) >= 2

\* The filter stages that a batch-wide flag guards.
FilterStages ==
    {"penalties", "top_k_top_p", "top_a", "min_p", "tfs", "eta_cutoff",
     "epsilon_cutoff", "typical", "quadratic"}

\* Row r1's parameters of a stage are at their neutral defaults.
NeutralAt(stage, r1) ==
    CASE stage = "penalties" ->
            /\ TensorAt(tensors.presence_penalties, r1) = 0
            /\ TensorAt(tensors.frequency_penalties, r1) = 0
            /\ TensorAt(tensors.repetition_penalties, r1) = 1
      [] stage = "top_k_top_p" ->
            /\ TensorAt(tensors.top_ps, r1) = Den
            /\ TensorAt(tensors.top_ks, r1) = VocabSize
      [] stage = "top_a" -> TensorAt(tensors.top_as, r1) = 0
      [] stage = "min_p" -> TensorAt(tensors.min_ps, r1) = 0
      [] stage = "tfs" -> TensorAt(tensors.tfss, r1) = Den
      [] stage = "eta_cutoff" -> TensorAt(tensors.eta_cutoffs, r1) = 0
      [] stage = "epsilon_cutoff" -> TensorAt(tensors.epsilon_cutoffs, r1) = 0
      [] stage = "typical" -> TensorAt(tensors.typical_ps, r1) = Den
      [] stage = "quadratic" -> TensorAt(tensors.smoothing_factors, r1) = 0
      [] OTHER -> FALSE

\* C18: a filter stage runs only when its batch-wide flag is set, and a
\* stage that runs leaves unchanged every row whose parameters for that
\* stage are at their neutral defaults.
C18_NeutralRowsUnchanged ==
    [][(pc \in FilterStages /\ pc' \notin {"error", "fault"}) =>
           /\ StageActive(pc, tensors)
           /\ \A r1 \in Rows : NeutralAt(pc, r1) => logits'[r1] = logits[r1]]_vars

\* Row r1's presence and frequency coefficients are zero and its repetition
\* coefficient is rep.
Coefficients(r1, rep) ==
    /\ TensorAt(tensors.presence_penalties, r1) = 0
    /\ TensorAt(tensors.frequency_penalties, r1) = 0
    /\ TensorAt(tensors.repetition_penalties, r1) = rep

\* C19 as stated: the penalty stage returns unchanged every row whose
\* presence, frequency and repetition coefficients are all zero.
C19_ZeroCoefficientsIdentity ==
    [][pc = "penalties" =>
           \A r1 \in Rows : Coefficients(r1, 0) => logits'[r1] = logits[r1]]_vars

\* C19, amended: the penalty stage returns unchanged every row whose
\* presence and frequency coefficients are zero and whose repetition
\* coefficient is one, whatever its prompt and output token history.
C19_NeutralCoefficientsIdentity ==
    [][pc = "penalties" =>
           \A r1 \in Rows : Coefficients(r1, 1) => logits'[r1] = logits[r1]]_vars

\* The penalty stage has just run over a row with neutral coefficients and
\* a token history, next to a row that it changed.
C19_Witness ==
    /\ hist.stages # <<>>
    /\ hist.stages[Len(hist.stages)] = "penalties"
    /\ \E r1, r2 \in Rows :
           /\ Coefficients(r1, 1)
           /\ TensorAt(tensors.output_tokens, r1) # <<>>
           /\ TensorAt(tensors.prompt_tokens, r1) # <<>>
           /\ logits[r1] = hist.gate_out[r1]
           /\ logits[r2] # hist.gate_out[r2]

\* C20: the top-k/top-p stage returns unchanged, entry by entry in the
\* original vocabulary order, every row whose top_p is 1 and whose top_k is
\* the vocabulary size: no finite entry is masked.
C20_FullTopKTopPKeepsRow ==
    [][pc = "top_k_top_p" =>
           \A r1 \in Rows :
               (TensorAt(tensors.top_ps, r1) = Den
                /\ TensorAt(tensors.top_ks, r1) = VocabSize) =>
                   \A t \in Vocab : logits'[r1][t] = logits[r1][t]]_vars

\* C21: in a row whose top_p is 0 exactly one token survives the
\* top-k/top-p stage, and it is a token that had the highest logit, hence
\* the highest probability, of the row that entered the stage.
C21_TopPZeroKeepsOneTop ==
    [][pc = "top_k_top_p" =>
           \A r1 \in Rows :
               TensorAt(tensors.top_ps, r1) = 0 =>
                   \E t \in Vocab :
                       /\ logits[r1][t] = RowMax(logits[r1])
                       /\ logits'[r1] = [u \in Vocab |->
                                            IF u = t THEN logits[r1][t] ELSE NegInf]]_vars

\* The stage has just run over a row with top_p = 0 that entered it with
\* several finite entries.
C21_Witness ==
    /\ hist.stages # <<>>
    /\ hist.stages[Len(hist.stages)] = "top_k_top_p"
    /\ \E r1 \in Rows :
           /\ TensorAt(tensors.top_ps, r1) = 0
           /\ Cardinality({t \in Vocab : hist.trunc_in[r1][t] # NegInf}) > 1
           /\ Cardinality({t \in Vocab : logits[r1][t] # NegInf}) = 1

\* Tail-free sampling as described: in the descending sort idx the first and
\* the last position are kept, a position in between is removed exactly
\* when the cumulative normalised curvature there exceeds the threshold.
TfsBoundariesKept(row, tfs, idx) ==
    LET logits_sort == [i \in 1 .. VocabSize |-> row[idx[i]]]
        sorted_probs == Softmax(logits_sort)
        d1 == [i \in 1 .. VocabSize - 1 |-> sorted_probs[i + 1] - sorted_probs[i]]
        d2 == [i \in 1 .. VocabSize - 2 |-> Abs(d1[i + 1] - d1[i])]
        total == SumSeq(d2)
    IN  [t \in Vocab |->
            LET i == CHOOSE j \in 1 .. VocabSize : idx[j] = t
            IN  IF i \in {1, VocabSize} THEN row[t]
                ELSE IF total > 0 /\ CumSum(d2, i - 1) * Den > tfs * total
                THEN NegInf ELSE row[t]]

\* C22: tail-free sampling never removes the highest and the lowest token
\* of a row, and removes a token in between exactly when the cumulative
\* normalised curvature at its position exceeds the row's threshold.
C22_TfsKeepsBoundaries ==
    [][pc = "tfs" =>
           \A r1 \in Rows :
               \E idx \in SortDescending(logits[r1]) :
                   logits'[r1] = TfsBoundariesKept(logits[r1],
                                                   TensorAt(tensors.tfss, r1), idx)]_vars

\* C23: the quadratic transform leaves unchanged every row whose smoothing
\* factor is not positive, leaves every -inf entry at -inf, and leaves the
\* entry that holds the row maximum at its value.
C23_QuadraticFrame ==
    [][pc = "quadratic" =>
           \A r1 \in Rows :
               /\ TensorAt(tensors.smoothing_factors, r1) <= 0 =>
                      logits'[r1] = logits[r1]
               /\ \A t \in Vocab :
                      /\ logits[r1][t] = NegInf => logits'[r1][t] = NegInf
                      /\ logits[r1][t] = RowMax(logits[r1]) =>
                             logits'[r1][t] = logits[r1][t]]_vars

\* The transform has just run over two rows that entered it equal: it
\* rewrote a finite entry of the row with a positive smoothing factor, which
\* also holds a -inf entry, and the other row has a smoothing factor of 0.
C23_Witness ==
    /\ hist.stages # <<>>
    /\ hist.stages[Len(hist.stages)] = "quadratic"
    /\ Len(logits) = 2
    /\ TensorAt(tensors.smoothing_factors, 1) > 0
    /\ TensorAt(tensors.smoothing_factors, 2) = 0
    /\ logits[2] = hist.logits_in[2]
    /\ logits[1] # logits[2]
    /\ \E t \in Vocab : logits[1][t] = NegInf /\ hist.logits_in[1][t] = NegInf

\* The score of a decode-phase beam candidate of group g: the parent's
\* cumulative log-probability plus the token's log-probability in the
\* parent's own row.
BeamScore(g, parent, token) ==
    AddLogprob(logprobs[g.sample_indices[parent + 1] + 1][token],
               g.cumulative_logprobs[parent + 1])

\* C24: a decode-phase beam-search group with n parent sequences and beam
\* width B yields exactly 2B distinct (parent, token) pairs with parent < n,
\* read from the group's own n rows, and no pair left out scores strictly
\* higher than a pair taken.
C24_BeamDecodeTop2B ==
    Drawn =>
        \A i \in 1 .. Len(md.seq_groups) :
            LET g == md.seq_groups[i]
                res == sample_results[i]
                B == g.sp.best_of
                n == Len(g.seq_ids)
                taken == {<<res.parent_ids[j], res.next_token_ids[j]>> :
                             j \in 1 .. Len(res.next_token_ids)}
            IN  (g.sp.sampling_type = "BEAM" /\ g.do_sample /\ ~g.is_prompt) =>
                    /\ Len(res.next_token_ids) = 2 * B
                    /\ Len(res.parent_ids) = 2 * B
                    /\ Cardinality(taken) = 2 * B
                    /\ taken \subseteq (0 .. n - 1) \X Vocab
                    /\ \A j \in 1 .. 2 * B :
                           res.rows[j] = g.sample_indices[res.parent_ids[j] + 1]
                    /\ \A a \in taken, b \in ((0 .. n - 1) \X Vocab) \ taken :
                           BeamScore(g, a[1], a[2]) >= BeamScore(g, b[1], b[2])

\* A decode-phase beam-search group with several parents has drawn
\* candidates from more than one parent and left out a candidate of
\* strictly lower score.
C24_Witness ==
    /\ Drawn
    /\ \E i \in 1 .. Len(md.seq_groups) :
           LET g == md.seq_groups[i]
               res == sample_results[i]
               taken == {<<res.parent_ids[m], res.next_token_ids[m]>> :
                            m \in 1 .. Len(res.next_token_ids)}
           IN  /\ g.sp.sampling_type = "BEAM" /\ g.do_sample /\ ~g.is_prompt
               /\ Len(g.seq_ids) >= 2
               /\ Cardinality(Range(res.parent_ids)) >= 2
               /\ \E a \in taken, p \in 0 .. Len(g.seq_ids) - 1, t \in Vocab :
                      /\ <<p, t>> \notin taken
                      /\ BeamScore(g, p, t) < BeamScore(g, a[1], a[2])

\* The seeded-random partition of the call: its groups in batch order, its
\* to-be-sampled rows, and the number of noise rows per probability row.
SeededGroups ==
    LET ids == CategorizedSeqGroupIds(md.seq_groups, "RANDOM_SEED")
    IN  [k \in 1 .. Len(ids) |-> md.seq_groups[ids[k]]]

SeededIndices == CategorizedSampleIndices(md.seq_groups, "RANDOM_SEED")

\* C25: in the seeded-random partition every noise row used for a row of a
\* group that samples is drawn from that group's own generator.
C25_NoiseFromOwnGenerator ==
    Drawn =>
        LET num_samples == MaxBestOf(SeededGroups)
            q == SeededNoise(SeededGroups, num_samples,
                             Len(SeededIndices) * num_samples,
                             hist.draw_in.generators)
        IN  \A k \in 1 .. Len(SeededGroups) :
                \A i \in 1 .. Len(SeededIndices) :
                    SeededIndices[i] \in Range(SeededGroups[k].sample_indices) =>
                        \A d \in 1 .. num_samples :
                            SeededGroups[q[(i - 1) * num_samples + d].group].generator
                                = SeededGroups[k].generator

\* C26: the state a seeded group's generator is left in by a step, and the
\* tokens the group draws, are those of a step in which the group is alone
\* in the batch: they do not depend on the presence or the best_of of the
\* other groups.
C26_GeneratorUseIsOwn ==
    Drawn =>
        \A i \in 1 .. Len(md.seq_groups) :
            LET g == md.seq_groups[i]
                alone == SampleWithTorch(CallAlone(g),
                                         RowsAlone(g, hist.draw_in.probs),
                                         RowsAlone(g, logprobs),
                                         hist.draw_in.generators,
                                         include_gpu_probs_tensor, 0)
            IN  (g.sp.sampling_type = "RANDOM_SEED" /\ g.do_sample) =>
                    /\ ~alone.raised
                    /\ generators[g.generator] = alone.generators[g.generator]
                    /\ sample_results[i].next_token_ids
                           = alone.sample_results[1].next_token_ids

\* The log-probability maps of the call have been assembled.
LogprobsAssembled ==
    /\ pc \in {"build_output", "done"}
    /\ ~md.skip_sampler_cpu_output

\* C27: every reported token is read at its own logits row, by the cursor
\* into the selected values and by the cursor into the top-k rows alike: the
\* j-th prompt-logprob row of the group for its j-th prompt token, and row
\* sample_indices[0] + parent id for a sampled token.
C27_CursorsAtOwnRow ==
    LogprobsAssembled =>
        \A i \in 1 .. Min(Len(md.seq_groups), Len(out_logprobs.sample_logprobs)) :
            LET g == md.seq_groups[i]
                sampled == out_logprobs.sample_logprobs[i]
                prompt == out_logprobs.prompt_logprobs[i].items
            IN  /\ \A j \in 1 .. Len(prompt) :
                       /\ prompt[j].query_row = g.prompt_logprob_indices[j]
                       /\ prompt[j].top_row = g.prompt_logprob_indices[j]
                       /\ prompt[j].dict[GetNextPromptTokens(g)[j]].logprob
                              = logprobs[g.prompt_logprob_indices[j] + 1]
                                        [GetNextPromptTokens(g)[j]]
                /\ \A j \in 1 .. Len(sampled) :
                       sampled[j].query_row # None =>
                           LET row == g.sample_indices[1] + sample_results[i].parent_ids[j]
                               token == sample_results[i].next_token_ids[j]
                           IN  /\ sampled[j].query_row = row
                               /\ sampled[j].top_row = row
                               /\ sampled[j].dict[token].logprob = logprobs[row + 1][token]

\* Maps with a prompt token and a sampled token were assembled for a group
\* that follows a beam-search group with more samples than sequences.
C27_Witness ==
    /\ LogprobsAssembled
    /\ Len(md.seq_groups) = 2
    /\ Len(out_logprobs.sample_logprobs) = 2
    /\ md.seq_groups[1].sp.use_beam_search
    /\ Len(sample_results[1].next_token_ids) > Len(md.seq_groups[1].seq_ids)
    /\ \E j \in 1 .. Len(out_logprobs.sample_logprobs[2]) :
           out_logprobs.sample_logprobs[2][j].query_row # None
    /\ Len(out_logprobs.prompt_logprobs[2].items) > 0
\* C28: the filter pipeline does not modify the cached parameter tensors:
\* after a forward call every tensor of the bundle has the shape and the
\* values the most recent build gave it, and a call that reuses the bundle
\* raises only where a call that rebuilds it would raise (at the row-count
\* assertion or at the temperature division of a bundle of another row
\* count).
C28_BundleUnmodified ==
    /\ pc = "done" => tensors = FromSamplingMetadata(hist.last_build)
    /\ (pc = "error" /\ tensors.present /\ ~hist.rebuilt) =>
           hist.stages[Len(hist.stages)] \in {"min_tokens", "temperature"}

\* C29: a call with the reuse flag on a Sampler that never built a bundle
\* ends in an error before any transform ran, with the logits untouched and
\* no result; every call that is in the pipeline, or that raised inside
\* it, has a bundle.
C29_NoCallWithoutBundle ==
    /\ (pc # "idle" /\ md.reuse_sampling_tensors /\ ~tensors.present) =>
           /\ pc = "error"
           /\ hist.stages = <<>>
           /\ logits = hist.logits_in
           /\ probs = <<>>
           /\ sample_results = <<>>
           /\ ~output.returned
    /\ (pc \notin {"idle", "error"} \/ hist.stages # <<>>) => tensors.present

\* A call with the reuse flag on a fresh Sampler has raised.
C29_Witness ==
    /\ pc = "error"
    /\ md.reuse_sampling_tensors
    /\ ~tensors.present
    /\ hist.stages = <<>>

\* C30: with the on-device tensors exposed, after the draw every
\* to-be-sampled row of every group, whatever its strategy, holds a written
\* entry in the sampled-token-id tensor, and for the greedy and random
\* strategies that entry is the token chosen for the row.
C30_EverySampledRowWritten ==
    (pc \in {"get_logprobs", "build_output", "done"} /\ include_gpu_probs_tensor) =>
        \A i \in 1 .. Len(md.seq_groups) :
            LET g == md.seq_groups[i] IN
            g.do_sample =>
                \A j \in 1 .. Len(g.sample_indices) :
                    LET entry == sampled_token_ids[g.sample_indices[j] + 1] IN
                    /\ entry # Unwritten
                    /\ (g.sp.sampling_type # "BEAM" /\ ~md.skip_sampler_cpu_output) =>
                           entry = sample_results[i].next_token_ids[
                                       IF g.is_prompt THEN 1 ELSE j]

====
